---- MODULE Spec2Model ----
(***************************************************************************)
(* Classification core of the CI log analysis system: the classifier       *)
(* coordinator, the fallback classifier, the root cause analysis engines,  *)
(* the context analyzer, the token classifier with its conflict resolver   *)
(* and the buffered grouping of the tokenization pipeline, as state        *)
(* machines translated from the Python source.                             *)
(*                                                                         *)
(* Numbers: confidences, scores and weights are Python floats in the       *)
(* source.  They are kept here as exact integers in units of 1/10000       *)
(* (confidence 0.65 is 6500); segment scores are in units of 1/100.        *)
(***************************************************************************)
EXTENDS Integers, Sequences, FiniteSets, TLC

VARIABLES
    c_strategy,   \* coordinator: self.conflict_resolution_strategy
    c_preds,      \* coordinator: the prediction list handed to coordinate()
    c_groups,     \* coordinator: prediction_groups, as indices into the filtered list
    c_out,        \* coordinator: the list coordinate() returned
    c_pc,         \* coordinator: "off" | "ready" | "done" | "raised"
    ca_window,    \* context analyzer: self.window_size
    ca_input,     \* context analyzer: the segments the input iterator still holds
    ca_all,       \* context analyzer: the whole input sequence (never changes)
    ca_buffer,    \* context analyzer: segment_buffer
    ca_out,       \* context analyzer: the segments yielded so far
    ca_pc,        \* context analyzer: position of the generator
    f_ceiling,    \* fallback classifier: self.confidence_ceiling
    f_segments,   \* fallback classifier: the segments handed to classify()
    f_out,        \* fallback classifier: the list classify() returned
    f_pc,         \* fallback classifier: "off" | "ready" | "done"
    e_classifiers,     \* engine: names in classifier_registry.classifiers, in insertion order
    e_enable_fallback, \* engine: self.enable_fallback
    e_threshold,       \* engine: confidence_threshold given to the coordinator
    e_segments,        \* engine: the caller's segment list (the objects are mutable)
    e_clock,           \* engine: int(time.time()), the wall clock in seconds
    e_runs,            \* engine: one record per finished analyze() call
    e_report,          \* engine: what generate_summary_report last returned
    e_pc,              \* engine: "off" | "ready"
    rc_classifiers,    \* simple engine: classifier ids in registry.classifiers, in order
    rc_threshold,      \* simple engine: self.confidence_threshold
    rc_segments,       \* simple engine: the segments handed to analyze()
    rc_out,            \* simple engine: the list analyze() returned
    rc_pc,             \* simple engine: "off" | "ready" | "done"
    tk_provider,  \* token classifier: self.provider
    tk_lines,     \* token classifier: the log lines still to be classified
    tk_context,   \* token classifier: self.context (section, test and stack-trace flags)
    tk_out,       \* token classifier: one record per classify_line() call
    tk_pc,        \* token classifier: "off" | "ready" | "done"
    g_provider,   \* pipeline: self.provider
    g_lines,      \* pipeline: the log lines handed to process()
    g_tokens,     \* pipeline: classified_tokens, the input of the grouping loop
    g_groups,     \* pipeline: grouped_tokens, as lists of token positions
    g_pc,         \* pipeline: "off" | "ready" | "done" | "raised"
    sv_objs,      \* section validator: the Section objects created, in order of creation
    sv_sections,  \* section validator: self.sections, name -> object (0: no entry)
    sv_active,    \* section validator: self.active_sections, a stack of objects
    sv_roots,     \* section validator: self.root_sections
    sv_issues,    \* section validator: self.validation_issues
    sv_line,      \* section validator: the line number of the last marker read
    sv_last,      \* section validator: the last call, its result and the state before it
    sg_segments,  \* section grouping: the input segments, by their context type
    sg_out,       \* section grouping: the GroupedSegments yielded, as lists of positions
    sg_pc,        \* section grouping: "off" | "ready" | "done"
    u_classifier, \* updater: the feedback groups the classifier reflects
    u_groups,     \* updater: update_groups, in order
    u_bad,        \* updater: the groups with which the evaluator detects a regression
    u_results,    \* updater: the UpdateResult list returned
    u_pc          \* updater: "off" | "ready" | "done"

coordVars == <<c_strategy, c_preds, c_groups, c_out, c_pc>>
ctxVars == <<ca_window, ca_input, ca_all, ca_buffer, ca_out, ca_pc>>
fbVars == <<f_ceiling, f_segments, f_out, f_pc>>
engVars == <<e_classifiers, e_enable_fallback, e_threshold, e_segments, e_clock, e_runs,
             e_report, e_pc>>
rceVars == <<rc_classifiers, rc_threshold, rc_segments, rc_out, rc_pc>>

tokVars == <<tk_provider, tk_lines, tk_context, tk_out, tk_pc>>
grpVars == <<g_provider, g_lines, g_tokens, g_groups, g_pc>>

sectVars == <<sv_objs, sv_sections, sv_active, sv_roots, sv_issues, sv_line, sv_last>>
sgVars == <<sg_segments, sg_out, sg_pc>>
updVars == <<u_classifier, u_groups, u_bad, u_results, u_pc>>
vars == <<coordVars, ctxVars, fbVars, engVars, rceVars, tokVars, grpVars, sectVars, sgVars,
          updVars>>

-----------------------------------------------------------------------------
(* Generic helpers                                                         *)

Min(a, b) == IF a <= b THEN a ELSE b

Range(s) == {s[i] : i \in 1..Len(s)}

\* All sequences over S of length 0..n.
SeqsUpTo(S, n) == UNION {[1..k -> S] : k \in 0..n}

\* An insertion that puts p before the elements of equal confidence.
RECURSIVE InsertBeforeEqual(_, _)
InsertBeforeEqual(sorted, p) ==
    IF sorted = <<>> THEN <<p>>
    ELSE IF Head(sorted).confidence > p.confidence
         THEN <<Head(sorted)>> \o InsertBeforeEqual(Tail(sorted), p)
         ELSE <<p>> \o sorted

\* list.sort(key=lambda p: p.confidence, reverse=True): Python's sort is
\* stable, and reverse=True keeps the original order of equal keys.
RECURSIVE InsertByConfidence(_, _)
InsertByConfidence(sorted, p) ==
    IF sorted = <<>> THEN <<p>>
    ELSE IF Head(sorted).confidence >= p.confidence
         THEN <<Head(sorted)>> \o InsertByConfidence(Tail(sorted), p)
         ELSE <<p>> \o sorted

RECURSIVE SortByConfidenceDesc(_)
SortByConfidenceDesc(s) ==
    IF s = <<>> THEN <<>>
    ELSE InsertByConfidence(SortByConfidenceDesc(SubSeq(s, 1, Len(s) - 1)), s[Len(s)])

-----------------------------------------------------------------------------
(* ClassifierCoordinator (classifier_coordinator.py)                       *)

\* base_confidence_threshold of the engine that owns the coordinator (0.65).
base_confidence_threshold == 6500

\* segment_overlap_threshold = 0.5, kept as the fraction Num/Den.
segment_overlap_threshold_num == 1
segment_overlap_threshold_den == 2

\* The keys of self.scoring_functions.
scoring_functions == {"weighted_score", "highest_confidence", "priority_label"}

\* label_priority_map, in tenths; labels outside the map get 1.0.
label_priority_map ==
    [SECURITY_VIOLATION |-> 50, OUT_OF_MEMORY |-> 40, PERMISSION_DENIED |-> 35,
     TEST_FAILURE |-> 30, BUILD_FAILURE |-> 25, MISSING_DEPENDENCY |-> 20,
     TIMEOUT |-> 15, CONFIGURATION_ERROR |-> 12, UNKNOWN |-> 10]

LabelPriority(label, default) ==
    IF label \in DOMAIN label_priority_map THEN label_priority_map[label] ELSE default

KnownProviders == {"github", "gitlab", "jenkins", "travis"}

\* The weighted score with the confidence factor left out.
IgnoreConfidenceScore(prediction) ==
    LabelPriority(prediction.label, 10)

\* _calculate_weighted_score: confidence (1/10000) x label_priority (1/10)
\* x evidence_factor (1/100) x provider_factor (1/20), an exact integer.
_calculate_weighted_score(prediction) ==
    LET label_priority == LabelPriority(prediction.label, 10)
        evidence_factor == Min(100, 80 + 5 * Len(prediction.supporting_tokens)
                                        + 2 * Len(prediction.segment_ids))
        provider_factor == IF prediction.provider_context.provider \in KnownProviders
                           THEN 21 ELSE 20
    IN prediction.confidence * label_priority * evidence_factor * provider_factor

\* scoring_functions.get(strategy, scoring_functions["weighted_score"])
score_fn(strategy, p) ==
    CASE strategy = "highest_confidence" -> p.confidence
      [] strategy = "priority_label" -> LabelPriority(p.label, 0)
      [] OTHER -> _calculate_weighted_score(p)

\* max(scored_predictions, key=...): the first element with the largest score.
_resolve_conflict(strategy, predictions) ==
    LET best == CHOOSE i \in 1..Len(predictions) :
                   /\ \A j \in 1..Len(predictions) :
                        score_fn(strategy, predictions[j]) <= score_fn(strategy, predictions[i])
                   /\ \A j \in 1..(i - 1) :
                        score_fn(strategy, predictions[j]) < score_fn(strategy, predictions[i])
    IN predictions[best]

\* _log_conflict_resolution indexes scoring_functions[strategy] directly: a
\* strategy that is no key raises KeyError.
_log_conflict_resolution_raises(strategy) == strategy \notin scoring_functions

\* The comparison with > in place of >=.
OverlapsStrictly(a, b) ==
    Cardinality(a \cap b) * segment_overlap_threshold_den
        > segment_overlap_threshold_num * Cardinality(a \cup b)

\* overlap_ratio >= segment_overlap_threshold, for non-empty sets.
Overlaps(a, b) ==
    Cardinality(a \cap b) * segment_overlap_threshold_den
        >= segment_overlap_threshold_num * Cardinality(a \cup b)

\* Inner for loop of _group_overlapping_predictions: scans the ungrouped
\* indices in ascending order; st = [members, segments] of the current group.
RECURSIVE ScanGroup(_, _, _)
ScanGroup(predictions, to_check, st) ==
    IF to_check = <<>> THEN st
    ELSE LET idx == Head(to_check)
             pred_segments == Range(predictions[idx].segment_ids)
         IN IF pred_segments = {} \/ st.segments = {}
            THEN ScanGroup(predictions, Tail(to_check), st)
            ELSE IF Overlaps(st.segments, pred_segments)
                 THEN ScanGroup(predictions, Tail(to_check),
                                [members |-> Append(st.members, idx),
                                 segments |-> st.segments \cup pred_segments])
                 ELSE ScanGroup(predictions, Tail(to_check), st)

\* The ascending list of the indices in a set.
RECURSIVE Ascending(_)
Ascending(S) ==
    IF S = {} THEN <<>>
    ELSE LET m == CHOOSE x \in S : \A y \in S : x <= y
         IN <<m>> \o Ascending(S \ {m})

\* The grouping loop without ungrouped.remove(idx) for the predictions
\* added to a group.
RECURSIVE GroupIndicesKeepingAdded(_, _)
GroupIndicesKeepingAdded(predictions, ungrouped) ==
    IF ungrouped = {} THEN <<>>
    ELSE LET current_index == CHOOSE x \in ungrouped : \A y \in ungrouped : x <= y
             rest == ungrouped \ {current_index}
             st == ScanGroup(predictions, Ascending(rest),
                             [members |-> <<current_index>>,
                              segments |-> Range(predictions[current_index].segment_ids)])
         IN <<st.members>> \o GroupIndicesKeepingAdded(predictions, rest)

\* while ungrouped: ... of _group_overlapping_predictions, as index groups.
RECURSIVE GroupIndices(_, _)
GroupIndices(predictions, ungrouped) ==
    IF ungrouped = {} THEN <<>>
    ELSE LET current_index == CHOOSE x \in ungrouped : \A y \in ungrouped : x <= y
             rest == ungrouped \ {current_index}
             st == ScanGroup(predictions, Ascending(rest),
                             [members |-> <<current_index>>,
                              segments |-> Range(predictions[current_index].segment_ids)])
         IN <<st.members>> \o GroupIndices(predictions, rest \ Range(st.members))

_group_overlapping_predictions(predictions) ==
    GroupIndices(predictions, 1..Len(predictions))

GroupMembers(predictions, group) ==
    [k \in 1..Len(group) |-> predictions[group[k]]]

\* A filter that keeps every prediction.
KeepAllPredictions(predictions, threshold) == predictions

\* filtered_predictions = [p for p in predictions
\*                         if p.confidence >= self.base_confidence_threshold]
FilterByThreshold(predictions, threshold) ==
    SelectSeq(predictions, LAMBDA p : p.confidence >= threshold)

\* coordinate() raises when a group of two or more is resolved under a
\* strategy that _log_conflict_resolution cannot look up.
coordinate_raises(strategy, threshold, predictions) ==
    LET filtered_predictions == FilterByThreshold(predictions, threshold)
        prediction_groups == _group_overlapping_predictions(filtered_predictions)
    IN /\ _log_conflict_resolution_raises(strategy)
       /\ \E g \in 1..Len(prediction_groups) : Len(prediction_groups[g]) > 1

\* The resolved predictions before the final sort, in group order.
resolved_predictions(strategy, threshold, predictions) ==
    LET filtered_predictions == FilterByThreshold(predictions, threshold)
        prediction_groups == _group_overlapping_predictions(filtered_predictions)
    IN [g \in 1..Len(prediction_groups) |->
          IF Len(prediction_groups[g]) = 1
          THEN filtered_predictions[prediction_groups[g][1]]
          ELSE _resolve_conflict(strategy,
                                 GroupMembers(filtered_predictions, prediction_groups[g]))]

coordinate(strategy, threshold, predictions) ==
    SortByConfidenceDesc(resolved_predictions(strategy, threshold, predictions))

-----------------------------------------------------------------------------
(* Segments and predictions                                                *)

\* A segment is an object probed with hasattr/getattr: an attribute it does
\* not carry is Absent (NoScore for the score).  obj stands for id(segment),
\* the identity of the Python object.
Absent == "<absent>"
NoReport == [status |-> "<none>"]

NoScore == -1

Segment(obj, id, score, text, tokens, line_number) ==
    [obj |-> obj, id |-> id, score |-> score, text |-> text, tokens |-> tokens,
     line_number |-> line_number, section |-> "build", stream |-> "stderr",
     provider |-> "github"]

Token(token_type, text) == [token_type |-> token_type, text |-> text]

\* RootCausePrediction(label, confidence, segment_ids, supporting_tokens,
\* provider_context, metadata, classifier_id)
RootCausePrediction(label, confidence, ids, tokens, provider, metadata, cid) ==
    [label |-> label, confidence |-> confidence, segment_ids |-> ids,
     supporting_tokens |-> tokens,
     provider_context |-> [provider |-> provider],
     metadata |-> metadata, classifier_id |-> cid]

\* f"segment_{i}", the id EnhancedRuleBasedClassifier.classify gives the
\* segment at 0-based position i.
PositionalId(i) ==
    CASE i = 0 -> "segment_0" [] i = 1 -> "segment_1" [] i = 2 -> "segment_2"
      [] i = 3 -> "segment_3" [] OTHER -> "segment_4"

\* f"segment_{id(segment)}", the id made up for a segment without an id.
SyntheticId(obj) ==
    CASE obj = 1 -> "segment_@1" [] obj = 2 -> "segment_@2" [] obj = 3 -> "segment_@3"
      [] obj = 4 -> "segment_@4" [] OTHER -> "segment_@5"

CountTokens(segment, types) ==
    Cardinality({i \in 1..Len(segment.tokens) : segment.tokens[i].token_type \in types})

TokenTexts(segment, types) ==
    LET sel == SelectSeq(segment.tokens, LAMBDA t : t.token_type \in types)
    IN [i \in 1..Len(sel) |-> sel[i].text]

FirstN(seq, n) == SubSeq(seq, 1, Min(n, Len(seq)))

-----------------------------------------------------------------------------
(* FallbackClassifier (fallback_classifier.py)                             *)

\* confidence_ceiling = 0.6 and min_segment_score = 0.4 (score in 1/100).
confidence_ceiling == 6000
min_segment_score == 40

\* The texts the model tries, with what re.search finds in them.
TextOom == "java.lang.OutOfMemoryError"
TextTwoMatches == "access denied - file not found"
TextPlain == "plain output"

TextLength(text) ==
    CASE text = TextOom -> 26 [] text = TextTwoMatches -> 30 [] OTHER -> 12

\* The heuristic_patterns that match the text, in list order, each with the
\* length of its match span.
heuristic_patterns(text) ==
    CASE text = TextOom -> <<[label |-> "OUT_OF_MEMORY", match_length |-> 26]>>
      [] text = TextTwoMatches -> <<[label |-> "PERMISSION_DENIED", match_length |-> 13],
                                    [label |-> "MISSING_FILE", match_length |-> 14]>>
      [] OTHER -> <<>>

\* The for loop of _suggest_label over the matching patterns: keeps the
\* match with the strictly highest confidence 0.4 + match_ratio * 0.3 + 0.3.
RECURSIVE BestHeuristic(_, _, _)
BestHeuristic(matches, text_length, best) ==
    IF matches = <<>> THEN best
    ELSE LET m == Head(matches)
             confidence == 4000 + ((m.match_length * 3000) \div text_length) + 3000
         IN IF confidence > best.confidence
            THEN BestHeuristic(Tail(matches), text_length,
                               [label |-> m.label, confidence |-> confidence])
            ELSE BestHeuristic(Tail(matches), text_length, best)

_suggest_label(segment) ==
    IF segment.text = Absent
    THEN [label |-> "UNCLASSIFIED", confidence |-> 0]
    ELSE LET best == BestHeuristic(heuristic_patterns(segment.text),
                                   TextLength(segment.text),
                                   [label |-> "UNCLASSIFIED", confidence |-> 0])
         IN IF best.label # "UNCLASSIFIED" THEN best
            ELSE IF CountTokens(segment, {"ERROR"}) > 0 /\ CountTokens(segment, {"COMMAND"}) > 0
                 THEN [label |-> "COMMAND_FAILURE", confidence |-> 3000]
            ELSE IF CountTokens(segment, {"ERROR"}) > 0
                      /\ CountTokens(segment, {"STACK_TRACE"}) > 0
                 THEN [label |-> "RUNTIME_ERROR", confidence |-> 4000]
            ELSE IF CountTokens(segment, {"WARNING"}) > 3
                 THEN [label |-> "CONFIGURATION_WARNING", confidence |-> 2500]
            ELSE best

\* _extract_diagnostic_tokens; none of the texts tried matches the
\* "error: ..." or "line N" patterns, so the text contributes its snippet.
_extract_diagnostic_tokens(segment) ==
    LET error_tokens == TokenTexts(segment, {"ERROR", "EXCEPTION"})
        warning_tokens == IF error_tokens = <<>> THEN TokenTexts(segment, {"WARNING"})
                          ELSE <<>>
        exit_tokens == TokenTexts(segment, {"EXIT_CODE"})
        diagnostics == FirstN(error_tokens, 2) \o FirstN(warning_tokens, 2)
                         \o FirstN(exit_tokens, 1)
    IN IF diagnostics = <<>> /\ segment.text # Absent
       THEN <<segment.text>>
       ELSE diagnostics

_generate_diagnostic_info(segment) ==
    [section |-> segment.section, line_number |-> segment.line_number,
     stream |-> segment.stream,
     text_length |-> IF segment.text = Absent THEN 0 ELSE TextLength(segment.text)]

\* The confidence of one fallback prediction without the min() against the
\* ceiling.
UncappedFallbackConfidence(segment, ceiling) ==
    LET suggestion == _suggest_label(segment)
        score == IF segment.score = NoScore THEN 50 ELSE segment.score
    IN 3000 + score * 30
         + (IF suggestion.label # "UNCLASSIFIED" THEN suggestion.confidence \div 5 ELSE 0)

\* adjusted_confidence of FallbackClassifier.classify: 0.3 + score * 0.3,
\* plus heuristic_confidence * 0.2 when a label was suggested, each capped
\* with min(confidence_ceiling, ...).
FallbackConfidence(segment, ceiling) ==
    LET suggestion == _suggest_label(segment)
        score == IF segment.score = NoScore THEN 50 ELSE segment.score
        base_confidence == Min(ceiling, 3000 + score * 30)
    IN IF suggestion.label # "UNCLASSIFIED"
       THEN Min(ceiling, base_confidence + (suggestion.confidence \div 5))
       ELSE base_confidence

\* getattr(segment, 'id', f"segment_{id(segment)}")
SegmentIdOrSynthetic(segment) ==
    IF segment.id = Absent THEN SyntheticId(segment.obj) ELSE segment.id

FallbackPrediction(segment, ceiling) ==
    RootCausePrediction(
        _suggest_label(segment).label,
        FallbackConfidence(segment, ceiling),
        <<SegmentIdOrSynthetic(segment)>>,
        _extract_diagnostic_tokens(segment),
        segment.provider,
        [is_fallback |-> TRUE, fallback_reason |-> "no_explicit_rule_match",
         segment_score |-> IF segment.score = NoScore THEN 0 ELSE segment.score,
         diagnostic_info |-> _generate_diagnostic_info(segment)],
        "FallbackClassifier")

\* scored_segments.sort(key=score, reverse=True), a stable sort on
\* getattr(s, 'score', 0.0).
SortScore(segment) == IF segment.score = NoScore THEN 0 ELSE segment.score

RECURSIVE InsertByScore(_, _)
InsertByScore(sorted, seg) ==
    IF sorted = <<>> THEN <<seg>>
    ELSE IF SortScore(Head(sorted)) >= SortScore(seg)
         THEN <<Head(sorted)>> \o InsertByScore(Tail(sorted), seg)
         ELSE <<seg>> \o sorted

RECURSIVE SortByScoreDesc(_)
SortByScoreDesc(s) ==
    IF s = <<>> THEN <<>>
    ELSE InsertByScore(SortByScoreDesc(SubSeq(s, 1, Len(s) - 1)), s[Len(s)])

significant_segments(segments) ==
    LET significant == SelectSeq(segments,
                           LAMBDA seg : seg.score # NoScore /\ seg.score >= min_segment_score)
    IN IF significant # <<>> THEN significant
       ELSE FirstN(SortByScoreDesc(segments), 3)

\* classify() without the sort by confidence before the cut to three.
FallbackClassifyInListOrder(segments, ceiling) ==
    IF segments = <<>> THEN <<>>
    ELSE LET chosen == significant_segments(segments)
         IN FirstN([i \in 1..Len(chosen) |-> FallbackPrediction(chosen[i], ceiling)], 3)

\* FallbackClassifier.classify(segments)
FallbackClassify(segments, ceiling) ==
    IF segments = <<>> THEN <<>>
    ELSE LET chosen == significant_segments(segments)
             predictions == [i \in 1..Len(chosen) |-> FallbackPrediction(chosen[i], ceiling)]
         IN FirstN(SortByConfidenceDesc(predictions), 3)

-----------------------------------------------------------------------------
(* The coordinator as a state machine: coordinate() applied to one list    *)

\* Longest prediction list handed to coordinate().
MaxPreds == 3

SegmentIdLists == {<<>>, <<"s1">>, <<"s1", "s2">>, <<"s1", "s2", "s3">>}

\* label, confidence, supporting tokens and provider of the predictions tried:
\* the two of the specification's scenario, one below the threshold and one
\* with more evidence and no recognised provider.
PredictionShapes ==
    { [label |-> "BUILD_FAILURE", confidence |-> 8000, supporting_tokens |-> <<>>,
       provider |-> "github"],
      [label |-> "BUILD_FAILURE", confidence |-> 7500, supporting_tokens |-> <<>>,
       provider |-> "github"],
      [label |-> "TEST_FAILURE", confidence |-> 7500, supporting_tokens |-> <<"assert">>,
       provider |-> "none"],
      [label |-> "TEST_FAILURE", confidence |-> 6000, supporting_tokens |-> <<>>,
       provider |-> "github"] }

CoordPredictions ==
    { RootCausePrediction(sh.label, sh.confidence, ids, sh.supporting_tokens,
                          sh.provider, [rule_name |-> "rule"], "classifier")
        : sh \in PredictionShapes, ids \in SegmentIdLists }

CoordStrategies == scoring_functions \cup {"custom"}

CoordInit ==
    /\ c_strategy \in CoordStrategies
    /\ c_preds \in SeqsUpTo(CoordPredictions, MaxPreds)
    /\ c_groups = <<>>
    /\ c_out = <<>>
    /\ c_pc = "ready"
    \* no context analysis in this specification
    /\ ca_window = 1 /\ ca_all = <<>> /\ ca_input = <<>> /\ ca_buffer = <<>>
    /\ ca_out = <<>> /\ ca_pc = "off"
    \* no fallback classification in this specification
    /\ f_ceiling = confidence_ceiling /\ f_segments = <<>> /\ f_out = <<>>
    /\ f_pc = "off"
    \* no engine of fallback_classifier.py in this specification
    /\ e_classifiers = <<>> /\ e_enable_fallback = TRUE
    /\ e_threshold = base_confidence_threshold /\ e_segments = <<>>
    /\ e_clock = 0 /\ e_runs = <<>>
    /\ e_report = [impl |-> "none", input |-> <<>>, report |-> NoReport]
    /\ e_pc = "off"
    \* no engine of root_cause_engine.py in this specification
    /\ rc_classifiers = <<>> /\ rc_threshold = 7000 /\ rc_segments = <<>>
    /\ rc_out = <<>> /\ rc_pc = "off"
    \* no token classification in this specification
    /\ tk_provider = "none" /\ tk_lines = <<>> /\ tk_out = <<>> /\ tk_pc = "off"
    /\ tk_context = [section |-> "none", in_test_context |-> FALSE,
                     in_stack_trace |-> FALSE]
    \* no buffered grouping in this specification
    /\ g_provider = "none" /\ g_lines = <<>> /\ g_tokens = <<>> /\ g_groups = <<>>
    /\ g_pc = "off"
    \* no section validation in this specification
    /\ sv_objs = <<>> /\ sv_sections = <<>> /\ sv_active = <<>> /\ sv_roots = <<>>
    /\ sv_issues = <<>> /\ sv_line = 0 /\ sv_last = [op |-> "none"]
    \* no section-based grouping in this specification
    /\ sg_segments = <<>> /\ sg_out = <<>> /\ sg_pc = "off"
    \* no classifier update in this specification
    /\ u_classifier = {} /\ u_groups = <<>> /\ u_bad = {} /\ u_results = <<>>
    /\ u_pc = "off"

\* Segment-id lists that are not nested in one another: two that share half
\* of their union, next to two short lists that each of them crosses.
CrossingIdLists == {<<"s1">>, <<"s1", "s2">>, <<"s1", "s3", "s4">>, <<"s2", "s3", "s4">>}

\* Predictions over those lists, at a confidence above and at one below the
\* threshold.
CrossingPredictions ==
    { RootCausePrediction("TEST_FAILURE", confidence, ids, <<>>, "github",
                          [rule_name |-> "rule"], "classifier")
        : confidence \in {7500, 6000}, ids \in CrossingIdLists }

\* A coordinator that is given predictions over the crossing lists.
CoordCrossInit ==
    /\ c_strategy \in CoordStrategies
    /\ c_preds \in SeqsUpTo(CrossingPredictions, MaxPreds)
    /\ c_groups = <<>>
    /\ c_out = <<>>
    /\ c_pc = "ready"
    \* no context analysis in this specification
    /\ ca_window = 1 /\ ca_all = <<>> /\ ca_input = <<>> /\ ca_buffer = <<>>
    /\ ca_out = <<>> /\ ca_pc = "off"
    \* no fallback classification in this specification
    /\ f_ceiling = confidence_ceiling /\ f_segments = <<>> /\ f_out = <<>>
    /\ f_pc = "off"
    \* no engine of fallback_classifier.py in this specification
    /\ e_classifiers = <<>> /\ e_enable_fallback = TRUE
    /\ e_threshold = base_confidence_threshold /\ e_segments = <<>>
    /\ e_clock = 0 /\ e_runs = <<>>
    /\ e_report = [impl |-> "none", input |-> <<>>, report |-> NoReport]
    /\ e_pc = "off"
    \* no engine of root_cause_engine.py in this specification
    /\ rc_classifiers = <<>> /\ rc_threshold = 7000 /\ rc_segments = <<>>
    /\ rc_out = <<>> /\ rc_pc = "off"
    \* no token classification in this specification
    /\ tk_provider = "none" /\ tk_lines = <<>> /\ tk_out = <<>> /\ tk_pc = "off"
    /\ tk_context = [section |-> "none", in_test_context |-> FALSE,
                     in_stack_trace |-> FALSE]
    \* no buffered grouping in this specification
    /\ g_provider = "none" /\ g_lines = <<>> /\ g_tokens = <<>> /\ g_groups = <<>>
    /\ g_pc = "off"
    \* no section validation in this specification
    /\ sv_objs = <<>> /\ sv_sections = <<>> /\ sv_active = <<>> /\ sv_roots = <<>>
    /\ sv_issues = <<>> /\ sv_line = 0 /\ sv_last = [op |-> "none"]
    \* no section-based grouping in this specification
    /\ sg_segments = <<>> /\ sg_out = <<>> /\ sg_pc = "off"
    \* no classifier update in this specification
    /\ u_classifier = {} /\ u_groups = <<>> /\ u_bad = {} /\ u_results = <<>>
    /\ u_pc = "off"

\* coordinate(predictions) returns normally.
Coordinate ==
    /\ c_pc = "ready"
    /\ ~coordinate_raises(c_strategy, base_confidence_threshold, c_preds)
    /\ c_groups' = _group_overlapping_predictions(
                       FilterByThreshold(c_preds, base_confidence_threshold))
    /\ c_out' = coordinate(c_strategy, base_confidence_threshold, c_preds)
    /\ c_pc' = "done"
    /\ UNCHANGED <<c_strategy, c_preds>>
    /\ UNCHANGED <<ctxVars, fbVars, engVars, rceVars, tokVars, grpVars,
                 sectVars, sgVars, updVars>>

\* coordinate(predictions) ends with the KeyError of _log_conflict_resolution.
CoordinateRaise ==
    /\ c_pc = "ready"
    /\ coordinate_raises(c_strategy, base_confidence_threshold, c_preds)
    /\ c_groups' = _group_overlapping_predictions(
                       FilterByThreshold(c_preds, base_confidence_threshold))
    /\ c_pc' = "raised"
    /\ UNCHANGED <<c_strategy, c_preds, c_out>>
    /\ UNCHANGED <<ctxVars, fbVars, engVars, rceVars, tokVars, grpVars,
                 sectVars, sgVars, updVars>>

CoordNext == Coordinate \/ CoordinateRaise

-----------------------------------------------------------------------------
(* ContextAnalyzer.analyze (context_analyzer.py), a generator               *)

\* Longest segment stream given to the context analyzer.
MaxCtxSegments == 4
\* Largest window_size tried.
MaxWindow == 3

\* _analyze_buffered_context returns buffer[len(buffer) // 2] (0-based), after
\* writing the context summaries into it.
_analyze_buffered_context(buffer) == buffer[(Len(buffer) \div 2) + 1]

CtxInit ==
    /\ ca_window \in 1..MaxWindow
    /\ \E n \in 0..MaxCtxSegments : ca_all = [i \in 1..n |-> i]
    /\ ca_input = ca_all
    /\ ca_buffer = <<>>
    /\ ca_out = <<>>
    /\ ca_pc = "loop"
    \* no coordinator call in this specification
    /\ c_strategy = "weighted_score" /\ c_preds = <<>> /\ c_groups = <<>>
    /\ c_out = <<>> /\ c_pc = "off"
    \* no fallback classification in this specification
    /\ f_ceiling = confidence_ceiling /\ f_segments = <<>> /\ f_out = <<>>
    /\ f_pc = "off"
    \* no engine of fallback_classifier.py in this specification
    /\ e_classifiers = <<>> /\ e_enable_fallback = TRUE
    /\ e_threshold = base_confidence_threshold /\ e_segments = <<>>
    /\ e_clock = 0 /\ e_runs = <<>>
    /\ e_report = [impl |-> "none", input |-> <<>>, report |-> NoReport]
    /\ e_pc = "off"
    \* no engine of root_cause_engine.py in this specification
    /\ rc_classifiers = <<>> /\ rc_threshold = 7000 /\ rc_segments = <<>>
    /\ rc_out = <<>> /\ rc_pc = "off"
    \* no token classification in this specification
    /\ tk_provider = "none" /\ tk_lines = <<>> /\ tk_out = <<>> /\ tk_pc = "off"
    /\ tk_context = [section |-> "none", in_test_context |-> FALSE,
                     in_stack_trace |-> FALSE]
    \* no buffered grouping in this specification
    /\ g_provider = "none" /\ g_lines = <<>> /\ g_tokens = <<>> /\ g_groups = <<>>
    /\ g_pc = "off"
    \* no section validation in this specification
    /\ sv_objs = <<>> /\ sv_sections = <<>> /\ sv_active = <<>> /\ sv_roots = <<>>
    /\ sv_issues = <<>> /\ sv_line = 0 /\ sv_last = [op |-> "none"]
    \* no section-based grouping in this specification
    /\ sg_segments = <<>> /\ sg_out = <<>> /\ sg_pc = "off"
    \* no classifier update in this specification
    /\ u_classifier = {} /\ u_groups = <<>> /\ u_bad = {} /\ u_results = <<>>
    /\ u_pc = "off"

\* for segment in segments: segment_buffer.append(segment); when the buffer
\* is longer than window_size the generator yields and is suspended.
CtxConsume ==
    /\ ca_pc = "loop"
    /\ ca_input # <<>>
    /\ ca_input' = Tail(ca_input)
    /\ ca_buffer' = Append(ca_buffer, Head(ca_input))
    /\ IF Len(ca_buffer') > ca_window
       THEN /\ ca_out' = Append(ca_out, _analyze_buffered_context(ca_buffer'))
            /\ ca_pc' = "yielded"
       ELSE /\ ca_out' = ca_out
            /\ ca_pc' = "loop"
    /\ UNCHANGED <<ca_window, ca_all>>
    /\ UNCHANGED <<coordVars, fbVars, engVars, rceVars, tokVars, grpVars,
                 sectVars, sgVars, updVars>>

\* The generator resumed after the yield of the for loop without
\* segment_buffer.pop(0).
CtxResumeWithoutPop ==
    /\ ca_pc = "yielded"
    /\ ca_pc' = "loop"
    /\ UNCHANGED <<ca_window, ca_all, ca_input, ca_buffer, ca_out>>
    /\ UNCHANGED <<coordVars, fbVars, engVars, rceVars, tokVars, grpVars,
                 sectVars, sgVars, updVars>>

\* The consumer asks for the next item: segment_buffer.pop(0) after the yield
\* of the for loop.
CtxResume ==
    /\ ca_pc = "yielded"
    /\ ca_buffer' = Tail(ca_buffer)
    /\ ca_pc' = "loop"
    /\ UNCHANGED <<ca_window, ca_all, ca_input, ca_out>>
    /\ UNCHANGED <<coordVars, fbVars, engVars, rceVars, tokVars, grpVars,
                 sectVars, sgVars, updVars>>

\* The input is exhausted: the for loop ends and the while loop starts.
CtxExhausted ==
    /\ ca_pc = "loop"
    /\ ca_input = <<>>
    /\ ca_pc' = "flush"
    /\ UNCHANGED <<ca_window, ca_all, ca_input, ca_buffer, ca_out>>
    /\ UNCHANGED <<coordVars, fbVars, engVars, rceVars, tokVars, grpVars,
                 sectVars, sgVars, updVars>>

\* while segment_buffer: yield the target of the shrinking buffer.
CtxFlushYield ==
    /\ ca_pc = "flush"
    /\ ca_buffer # <<>>
    /\ ca_out' = Append(ca_out, _analyze_buffered_context(ca_buffer))
    /\ ca_pc' = "flush_yielded"
    /\ UNCHANGED <<ca_window, ca_all, ca_input, ca_buffer>>
    /\ UNCHANGED <<coordVars, fbVars, engVars, rceVars, tokVars, grpVars,
                 sectVars, sgVars, updVars>>

\* segment_buffer.pop(0) after the yield of the while loop.
CtxFlushResume ==
    /\ ca_pc = "flush_yielded"
    /\ ca_buffer' = Tail(ca_buffer)
    /\ ca_pc' = "flush"
    /\ UNCHANGED <<ca_window, ca_all, ca_input, ca_out>>
    /\ UNCHANGED <<coordVars, fbVars, engVars, rceVars, tokVars, grpVars,
                 sectVars, sgVars, updVars>>

\* The while loop ends: the generator is finished.
CtxFinish ==
    /\ ca_pc = "flush"
    /\ ca_buffer = <<>>
    /\ ca_pc' = "done"
    /\ UNCHANGED <<ca_window, ca_all, ca_input, ca_buffer, ca_out>>
    /\ UNCHANGED <<coordVars, fbVars, engVars, rceVars, tokVars, grpVars,
                 sectVars, sgVars, updVars>>

CtxNext ==
    \/ CtxConsume \/ CtxResume \/ CtxExhausted
    \/ CtxFlushYield \/ CtxFlushResume \/ CtxFinish

-----------------------------------------------------------------------------
(* FallbackClassifier.classify as a state machine                          *)

\* Longest segment list handed to FallbackClassifier.classify().
MaxFbSegs == 4

\* The segments tried: what the fallback classifier reads of a segment.
FallbackShapes ==
    { [has_id |-> TRUE, score |-> 100, text |-> TextPlain,
       tokens |-> <<Token("ERROR", "error"), Token("COMMAND", "make")>>],
      [has_id |-> FALSE, score |-> 50, text |-> TextPlain,
       tokens |-> <<Token("ERROR", "error"), Token("COMMAND", "make")>>],
      [has_id |-> TRUE, score |-> NoScore, text |-> TextOom,
       tokens |-> <<Token("ERROR", "oom")>>],
      [has_id |-> TRUE, score |-> 30, text |-> TextTwoMatches, tokens |-> <<>>],
      [has_id |-> FALSE, score |-> 0, text |-> Absent,
       tokens |-> <<Token("WARNING", "w1"), Token("WARNING", "w2")>>],
      [has_id |-> TRUE, score |-> 40, text |-> TextPlain,
       tokens |-> <<Token("ERROR", "error"), Token("STACK_TRACE", "at f")>>] }

\* The id a caller gave to the segment at (1-based) position i.
GivenId(i) ==
    CASE i = 1 -> "s1" [] i = 2 -> "s2" [] i = 3 -> "s3" [] i = 4 -> "s4" [] OTHER -> "s5"

\* The segment of a shape at position i of the list; the objects of a list
\* are distinct and ten lines apart.
SegmentAt(shape, i) ==
    Segment(i, IF shape.has_id THEN GivenId(i) ELSE Absent, shape.score, shape.text,
            shape.tokens, 10 * i)

SegmentLists(shapes, n) ==
    UNION { { [i \in 1..k |-> SegmentAt(f[i], i)] : f \in [1..k -> shapes] } : k \in 0..n }

FallbackCeilings == {confidence_ceiling, 5000}

FallbackInit ==
    /\ f_ceiling \in FallbackCeilings
    /\ f_segments \in SegmentLists(FallbackShapes, MaxFbSegs)
    /\ f_out = <<>>
    /\ f_pc = "ready"
    \* no coordinator call in this specification
    /\ c_strategy = "weighted_score" /\ c_preds = <<>> /\ c_groups = <<>>
    /\ c_out = <<>> /\ c_pc = "off"
    \* no context analysis in this specification
    /\ ca_window = 1 /\ ca_all = <<>> /\ ca_input = <<>> /\ ca_buffer = <<>>
    /\ ca_out = <<>> /\ ca_pc = "off"
    \* no engine of fallback_classifier.py in this specification
    /\ e_classifiers = <<>> /\ e_enable_fallback = TRUE
    /\ e_threshold = base_confidence_threshold /\ e_segments = <<>>
    /\ e_clock = 0 /\ e_runs = <<>>
    /\ e_report = [impl |-> "none", input |-> <<>>, report |-> NoReport]
    /\ e_pc = "off"
    \* no engine of root_cause_engine.py in this specification
    /\ rc_classifiers = <<>> /\ rc_threshold = 7000 /\ rc_segments = <<>>
    /\ rc_out = <<>> /\ rc_pc = "off"
    \* no token classification in this specification
    /\ tk_provider = "none" /\ tk_lines = <<>> /\ tk_out = <<>> /\ tk_pc = "off"
    /\ tk_context = [section |-> "none", in_test_context |-> FALSE,
                     in_stack_trace |-> FALSE]
    \* no buffered grouping in this specification
    /\ g_provider = "none" /\ g_lines = <<>> /\ g_tokens = <<>> /\ g_groups = <<>>
    /\ g_pc = "off"
    \* no section validation in this specification
    /\ sv_objs = <<>> /\ sv_sections = <<>> /\ sv_active = <<>> /\ sv_roots = <<>>
    /\ sv_issues = <<>> /\ sv_line = 0 /\ sv_last = [op |-> "none"]
    \* no section-based grouping in this specification
    /\ sg_segments = <<>> /\ sg_out = <<>> /\ sg_pc = "off"
    \* no classifier update in this specification
    /\ u_classifier = {} /\ u_groups = <<>> /\ u_bad = {} /\ u_results = <<>>
    /\ u_pc = "off"

\* classify(segments) on a non-empty list.
FallbackClassifyCall ==
    /\ f_pc = "ready"
    /\ f_segments # <<>>
    /\ f_out' = FallbackClassify(f_segments, f_ceiling)
    /\ f_pc' = "done"
    /\ UNCHANGED <<f_ceiling, f_segments>>
    /\ UNCHANGED <<coordVars, ctxVars, engVars, rceVars, tokVars, grpVars,
                 sectVars, sgVars, updVars>>

\* classify([]): the early return.
FallbackClassifyEmpty ==
    /\ f_pc = "ready"
    /\ f_segments = <<>>
    /\ f_out' = <<>>
    /\ f_pc' = "done"
    /\ UNCHANGED <<f_ceiling, f_segments>>
    /\ UNCHANGED <<coordVars, ctxVars, engVars, rceVars, tokVars, grpVars,
                 sectVars, sgVars, updVars>>

FallbackNext == FallbackClassifyCall \/ FallbackClassifyEmpty

-----------------------------------------------------------------------------
(* Rule-based classifiers (rule_conditions.py, label_types.py)             *)

\* EnhancedRuleBasedClassifier and MultiLabelClassifier: confidence_threshold
\* = 0.7.
classifier_confidence_threshold == 7000

\* PatternCondition.evaluate runs self.pattern.search(segment.text): on a
\* segment without a text it raises.
PatternConditionRaises(segment) == segment.text = Absent

\* A rule whose condition starts with a PatternCondition evaluates it on every
\* segment of the list, so ContextualRule.evaluate raises when one lacks text.
RuleEvaluateRaises(segments) ==
    \E i \in 1..Len(segments) : PatternConditionRaises(segments[i])

\* PatternCondition("java\.lang\.OutOfMemoryError")
\*   & TokenTypeCondition(['ERROR', 'STACK_TRACE'], min_count=1)
java_oom_condition(segment) ==
    /\ segment.text = TextOom
    /\ CountTokens(segment, {"ERROR", "STACK_TRACE"}) >= 1

\* The preprocessing loop of EnhancedRuleBasedClassifier.classify: a segment
\* without id gets segment.id = f"segment_{i}", written into the object.
EnsureSegmentIds(segments) ==
    [i \in 1..Len(segments) |->
        IF segments[i].id = Absent
        THEN [segments[i] EXCEPT !.id = PositionalId(i - 1)]
        ELSE segments[i]]

Distance(a, b) == IF a >= b THEN a - b ELSE b - a

\* find_stack_traces of OutOfMemoryClassifier: the other segments within 20
\* lines that hold a STACK_TRACE token.
find_stack_traces(segments, segment) ==
    SelectSeq(segments,
              LAMBDA s : /\ Distance(s.line_number, segment.line_number) <= 20
                         /\ CountTokens(s, {"STACK_TRACE"}) >= 1
                         /\ s.obj # segment.obj)

\* oom_confidence: 0.85, plus 0.1 with stack traces in the context; none of
\* the texts tried carries a memory size.
oom_confidence(segment, context_segments) ==
    Min(8500 + (IF context_segments # <<>> THEN 1000 ELSE 0), 10000)

SegmentIds(segments) == [i \in 1..Len(segments) |-> segments[i].id]

\* OutOfMemoryClassifier.classify (rule_conditions.py): the predictions of the
\* rule java_oom_with_stack; process_killed_oom matches none of the texts.
OutOfMemoryClassifier(segments) ==
    LET prepared == EnsureSegmentIds(segments)
        matches == SelectSeq(prepared, java_oom_condition)
        prediction(m) ==
            LET context_segments == find_stack_traces(prepared, m)
            IN RootCausePrediction("OUT_OF_MEMORY", oom_confidence(m, context_segments),
                                   <<m.id>> \o SegmentIds(context_segments), <<>>,
                                   m.provider,
                                   [rule_name |-> "java_oom_with_stack",
                                    primary_segment_section |-> m.section,
                                    primary_segment_stream |-> m.stream],
                                   "OutOfMemoryClassifier")
        predictions == [i \in 1..Len(matches) |-> prediction(matches[i])]
    IN IF RuleEvaluateRaises(prepared)
       THEN [raised |-> TRUE, segments |-> prepared, predictions |-> <<>>]
       ELSE [raised |-> FALSE, segments |-> prepared,
             predictions |-> SortByConfidenceDesc(
                 SelectSeq(predictions,
                           LAMBDA p : p.confidence >= classifier_confidence_threshold))]

\* MultiLabelRuleBasedClassifier.classify_multi followed by the conversion of
\* MultiLabelClassifier.classify, for OutOfMemoryMultiLabelClassifier: rule
\* java_oom with confidence 0.85, no context and the token "Java heap space".
\* The run id f"run_{id(segments)}_{int(time.time())}" goes into every bundle
\* id; the same list object is passed each time, so the clock is the part of
\* it that can change.  No detector pattern occurs in the texts tried.  The
\* rule reads primary_segment.id, which raises on a segment without id.
classify_multi(segments, clock) ==
    LET matches == SelectSeq(segments, java_oom_condition)
        prediction(k) ==
            RootCausePrediction("OUT_OF_MEMORY", 8500, <<matches[k].id>>,
                                <<"Java heap space">>, "none",
                                [has_secondary_causes |-> FALSE,
                                 bundle_id |-> [run_time |-> clock, index |-> k - 1],
                                 original_metadata |-> [rule_name |-> "java_oom"]],
                                "OutOfMemoryMultiLabelClassifier")
    IN IF \/ RuleEvaluateRaises(segments)
          \/ \E k \in 1..Len(matches) : matches[k].id = Absent
       THEN [raised |-> TRUE, segments |-> segments, predictions |-> <<>>]
       ELSE [raised |-> FALSE, segments |-> segments,
             predictions |-> [k \in 1..Len(matches) |-> prediction(k)]]

ClassifierClassify(name, segments, clock) ==
    IF name = "oom" THEN OutOfMemoryClassifier(segments)
    ELSE classify_multi(segments, clock)

\* The loop of EnhancedClassifierRegistry.classify over the classifiers in
\* insertion order; an exception of one classifier ends the loop.
RECURSIVE RegistryLoop(_, _, _)
RegistryLoop(classifiers, clock, st) ==
    IF classifiers = <<>> \/ st.raised THEN st
    ELSE LET r == ClassifierClassify(Head(classifiers), st.segments, clock)
         IN RegistryLoop(Tail(classifiers), clock,
                         [raised |-> r.raised, segments |-> r.segments,
                          predictions |-> st.predictions \o r.predictions])

\* EnhancedClassifierRegistry.classify: all predictions, sorted by confidence.
RegistryClassify(classifiers, segments, clock) ==
    LET st == RegistryLoop(classifiers, clock,
                           [raised |-> FALSE, segments |-> segments, predictions |-> <<>>])
    IN [st EXCEPT !.predictions = SortByConfidenceDesc(st.predictions)]

-----------------------------------------------------------------------------
(* RootCauseAnalysisEngine (fallback_classifier.py)                        *)

\* The loop of analyze() that looks for the highest-scoring segment: the
\* first segment whose getattr(s, 'score', 0) is strictly the largest.
best_segment(segments) ==
    CHOOSE i \in 1..Len(segments) :
        /\ \A j \in 1..Len(segments) : SortScore(segments[j]) <= SortScore(segments[i])
        /\ \A j \in 1..(i - 1) : SortScore(segments[j]) < SortScore(segments[i])

\* The last-resort prediction of analyze(): UNCLASSIFIED at confidence 0.3.
LastResortPrediction(segment) ==
    RootCausePrediction("UNCLASSIFIED", 3000, <<SegmentIdOrSynthetic(segment)>>, <<>>,
                        "none",
                        [is_fallback |-> TRUE, fallback_reason |-> "last_resort",
                         diagnostic_info |->
                             [message |-> "No classification rules matched and heuristics failed."]],
                        "LastResortFallback")

\* segment_map = {s.id: s for s in segments if hasattr(s, 'id')}: the last
\* segment carrying the id, 0 when there is none.
SegmentMap(segments, seg_id) ==
    LET holders == {i \in 1..Len(segments) : segments[i].id = seg_id /\ seg_id # Absent}
    IN IF holders = {} THEN 0 ELSE CHOOSE i \in holders : \A j \in holders : j <= i

RECURSIVE SumSeq(_)
SumSeq(s) == IF s = <<>> THEN 0 ELSE Head(s) + SumSeq(Tail(s))

MinOf(S) == CHOOSE x \in S : \A y \in S : x <= y
MaxOf(S) == CHOOSE x \in S : \A y \in S : y <= x

\* ClassifierCoordinator.enrich_prediction_metadata: a copy of the prediction
\* whose metadata gains the sections, the token type counts and the line
\* range of the referenced segments; an entry the code does not add is empty.
enrich_prediction_metadata(prediction, segments) ==
    LET ids == prediction.segment_ids
        hits == SelectSeq([k \in 1..Len(ids) |-> SegmentMap(segments, ids[k])],
                          LAMBDA i : i # 0)
        sections == {segments[hits[k]].section : k \in 1..Len(hits)}
        types == UNION {{segments[hits[k]].tokens[t].token_type
                            : t \in 1..Len(segments[hits[k]].tokens)} : k \in 1..Len(hits)}
        lines == {segments[hits[k]].line_number : k \in 1..Len(hits)}
    IN [prediction EXCEPT !.metadata =
          [base |-> prediction.metadata,
           sections |-> [s \in sections |->
                           SumSeq([k \in 1..Len(hits) |->
                                     IF segments[hits[k]].section = s THEN 1 ELSE 0])],
           token_type_counts |-> [ty \in types |->
                           SumSeq([k \in 1..Len(hits) |->
                                     CountTokens(segments[hits[k]], {ty})])],
           line_range |-> IF lines = {} THEN <<>> ELSE <<MinOf(lines), MaxOf(lines)>>]]

\* A guard that lets the fallback run only on a non-empty prediction list.
FallbackOnlyAfterPredictions(enable_fallback, raw_predictions) ==
    enable_fallback /\ raw_predictions # <<>>

\* if self.enable_fallback and not raw_predictions: the condition under which
\* analyze() calls self.fallback_classifier.classify(segments).
fallback_condition(enable_fallback, raw_predictions) ==
    enable_fallback /\ raw_predictions = <<>>

\* The statements coordinate(predictions) executes: it returns before the
\* grouping and the sort when the list is empty or nothing reaches the
\* threshold; otherwise resolved_predictions.sort(...) is its last statement.
coordinate_stages(threshold, predictions) ==
    IF predictions = <<>> \/ FilterByThreshold(predictions, threshold) = <<>>
    THEN <<"Coordinate">>
    ELSE <<"Coordinate", "Sort">>

\* A run in which the sort comes after the enrichment.
StagesSortLast(fallback_invoked, last_resort_entered, coordinator_stages) ==
    <<"RunClassifiers">>
    \o (IF fallback_invoked THEN <<"RunFallback">> ELSE <<>>)
    \o (IF last_resort_entered THEN <<"LastResort">> ELSE <<>>)
    \o <<"Coordinate", "Enrich">>
    \o (IF Len(coordinator_stages) > 1 THEN <<"Sort">> ELSE <<>>)

\* The stages of one analyze() call that returns, in the order of its
\* statements: the registry, the fallback classifier under its condition,
\* the last-resort block under its condition, coordinate() (the sort is
\* inside it), the enrichment of what coordinate() returned.
analyze_stages(fallback_invoked, last_resort_entered, coordinator_stages) ==
    <<"RunClassifiers">>
    \o (IF fallback_invoked THEN <<"RunFallback">> ELSE <<>>)
    \o (IF last_resort_entered THEN <<"LastResort">> ELSE <<>>)
    \o coordinator_stages
    \o <<"Enrich">>

\* RootCauseAnalysisEngine.analyze(segments): the registry, the fallback
\* classifier when nothing matched, the last resort when there is still
\* nothing, the coordinator, the enrichment.
EngineAnalyze(classifiers, enable_fallback, threshold, segments, clock) ==
    LET reg == RegistryClassify(classifiers, segments, clock)
        fallback_invoked == fallback_condition(enable_fallback, reg.predictions)
        fallback_predictions ==
            IF fallback_invoked THEN FallbackClassify(reg.segments, confidence_ceiling)
            ELSE <<>>
        with_fallback == reg.predictions \o fallback_predictions
        last_resort == with_fallback = <<>> /\ reg.segments # <<>>
        raw_predictions ==
            IF last_resort
            THEN <<LastResortPrediction(reg.segments[best_segment(reg.segments)])>>
            ELSE with_fallback
        coordinated == coordinate("weighted_score", threshold, raw_predictions)
    IN IF reg.raised
       THEN [raised |-> TRUE, segments |-> reg.segments, input |-> segments,
             rule_predictions |-> <<>>, fallback_invoked |-> FALSE,
             fallback_predictions |-> <<>>,
             last_resort |-> FALSE, raw_predictions |-> <<>>,
             stages |-> <<"RunClassifiers">>, predictions |-> <<>>]
       ELSE [raised |-> FALSE, segments |-> reg.segments, input |-> segments,
             rule_predictions |-> reg.predictions,
             fallback_invoked |-> fallback_invoked,
             fallback_predictions |-> fallback_predictions,
             last_resort |-> last_resort,
             raw_predictions |-> raw_predictions,
             stages |-> analyze_stages(fallback_invoked, with_fallback = <<>>,
                                       coordinate_stages(threshold, raw_predictions)),
             predictions |-> [i \in 1..Len(coordinated) |->
                                enrich_prediction_metadata(coordinated[i], reg.segments)]]

\* A report that carries the status and nothing else.
StatusOnlyReport(predictions) == [status |-> "no_issues"]

\* generate_summary_report of root_cause_engine.py; the predictions carry no
\* references, so the job, section and url lists stay empty.
generate_summary_report(predictions) ==
    IF predictions = <<>>
    THEN [status |-> "no_issues", all_issues |-> <<>>]
    ELSE LET primary == predictions[CHOOSE i \in 1..Len(predictions) :
                           /\ \A j \in 1..Len(predictions) :
                                 predictions[j].confidence <= predictions[i].confidence
                           /\ \A j \in 1..(i - 1) :
                                 predictions[j].confidence < predictions[i].confidence]
         IN [status |-> "issues_detected",
             primary_issue |-> [label |-> primary.label, confidence |-> primary.confidence,
                                description |-> "",
                                evidence |-> primary.supporting_tokens],
             affected_jobs |-> <<>>, affected_sections |-> <<>>,
             all_issues |-> [i \in 1..Len(predictions) |->
                               [label |-> predictions[i].label,
                                confidence |-> predictions[i].confidence,
                                references |-> <<>>]],
             trace_urls |-> <<>>]

\* generate_summary_report of segment_reference.py; of the non-empty report
\* the status, the primary issue and the issue list are kept.
generate_summary_report_with_references(predictions) ==
    IF predictions = <<>>
    THEN [status |-> "no_issues_detected"]
    ELSE [status |-> "issues_detected",
          primary_issue |-> [label |-> predictions[1].label,
                             confidence |-> predictions[1].confidence,
                             evidence |-> FirstN(predictions[1].supporting_tokens, 5)],
          all_issues |-> [i \in 1..Len(predictions) |->
                            [label |-> predictions[i].label,
                             confidence |-> predictions[i].confidence]]]

-----------------------------------------------------------------------------
(* The engine as a state machine                                           *)

\* Longest segment list handed to analyze().
MaxSegs == 2
\* Most analyze() calls made on one engine.
MaxRuns == 2
\* Most seconds the wall clock advances.
MaxClock == 1

\* The segments tried: one the OOM rules match, a stack trace next to it, one
\* only the fallback heuristics label, and a malformed one without text.
EngineShapes ==
    { [has_id |-> h, score |-> sh.score, text |-> sh.text, tokens |-> sh.tokens]
        : h \in BOOLEAN,
          sh \in { [score |-> 80, text |-> TextOom, tokens |-> <<Token("ERROR", "oom")>>],
                   [score |-> 50, text |-> TextPlain,
                    tokens |-> <<Token("ERROR", "error"), Token("COMMAND", "make")>>] } }
    \cup { [has_id |-> TRUE, score |-> NoScore, text |-> TextPlain,
            tokens |-> <<Token("STACK_TRACE", "at f")>>],
           [has_id |-> FALSE, score |-> 100, text |-> Absent,
            tokens |-> <<Token("ERROR", "error")>>] }

\* Registration orders of the contextual OOM classifier ("oom") and the
\* multi-label OOM classifier ("oom_multi").
EngineRegistrations ==
    {<<>>, <<"oom">>, <<"oom_multi">>, <<"oom", "oom_multi">>, <<"oom_multi", "oom">>}

\* confidence_threshold: the default 0.65 and one that lets every fallback
\* prediction through.
EngineThresholds == {base_confidence_threshold, 3000}


EngineInit ==
    /\ e_classifiers \in EngineRegistrations
    /\ e_enable_fallback \in BOOLEAN
    /\ e_threshold \in EngineThresholds
    /\ e_segments \in SegmentLists(EngineShapes, MaxSegs)
    /\ e_clock = 0
    /\ e_runs = <<>>
    /\ e_report = [impl |-> "none", input |-> <<>>, report |-> NoReport]
    /\ e_pc = "ready"
    \* no coordinator call in this specification
    /\ c_strategy = "weighted_score" /\ c_preds = <<>> /\ c_groups = <<>>
    /\ c_out = <<>> /\ c_pc = "off"
    \* no context analysis in this specification
    /\ ca_window = 1 /\ ca_all = <<>> /\ ca_input = <<>> /\ ca_buffer = <<>>
    /\ ca_out = <<>> /\ ca_pc = "off"
    \* no fallback classification in this specification
    /\ f_ceiling = confidence_ceiling /\ f_segments = <<>> /\ f_out = <<>>
    /\ f_pc = "off"
    \* no engine of root_cause_engine.py in this specification
    /\ rc_classifiers = <<>> /\ rc_threshold = 7000 /\ rc_segments = <<>>
    /\ rc_out = <<>> /\ rc_pc = "off"
    \* no token classification in this specification
    /\ tk_provider = "none" /\ tk_lines = <<>> /\ tk_out = <<>> /\ tk_pc = "off"
    /\ tk_context = [section |-> "none", in_test_context |-> FALSE,
                     in_stack_trace |-> FALSE]
    \* no buffered grouping in this specification
    /\ g_provider = "none" /\ g_lines = <<>> /\ g_tokens = <<>> /\ g_groups = <<>>
    /\ g_pc = "off"
    \* no section validation in this specification
    /\ sv_objs = <<>> /\ sv_sections = <<>> /\ sv_active = <<>> /\ sv_roots = <<>>
    /\ sv_issues = <<>> /\ sv_line = 0 /\ sv_last = [op |-> "none"]
    \* no section-based grouping in this specification
    /\ sg_segments = <<>> /\ sg_out = <<>> /\ sg_pc = "off"
    \* no classifier update in this specification
    /\ u_classifier = {} /\ u_groups = <<>> /\ u_bad = {} /\ u_results = <<>>
    /\ u_pc = "off"

\* One call of analyze(e_segments) that returns.
Analyze ==
    /\ e_pc = "ready"
    /\ Len(e_runs) < MaxRuns
    /\ \E r \in {EngineAnalyze(e_classifiers, e_enable_fallback, e_threshold, e_segments,
                              e_clock)} :
          /\ ~r.raised
          /\ e_runs' = Append(e_runs, r)
          /\ e_segments' = r.segments
    /\ UNCHANGED <<e_classifiers, e_enable_fallback, e_threshold, e_clock, e_report, e_pc>>
    /\ UNCHANGED <<coordVars, ctxVars, fbVars, rceVars, tokVars, grpVars,
                 sectVars, sgVars, updVars>>

\* One call of analyze(e_segments) that ends with the exception of a rule.
AnalyzeRaise ==
    /\ e_pc = "ready"
    /\ Len(e_runs) < MaxRuns
    /\ \E r \in {EngineAnalyze(e_classifiers, e_enable_fallback, e_threshold, e_segments,
                              e_clock)} :
          /\ r.raised
          /\ e_runs' = Append(e_runs, r)
          /\ e_segments' = r.segments
    /\ UNCHANGED <<e_classifiers, e_enable_fallback, e_threshold, e_clock, e_report, e_pc>>
    /\ UNCHANGED <<coordVars, ctxVars, fbVars, rceVars, tokVars, grpVars,
                 sectVars, sgVars, updVars>>

\* A second of wall-clock time passes between two calls.
Tick ==
    /\ e_pc = "ready"
    /\ e_runs # <<>>
    /\ Len(e_runs) < MaxRuns
    /\ e_clock < MaxClock
    /\ e_clock' = e_clock + 1
    /\ UNCHANGED <<e_classifiers, e_enable_fallback, e_threshold, e_segments, e_runs,
                   e_report, e_pc>>
    /\ UNCHANGED <<coordVars, ctxVars, fbVars, rceVars, tokVars, grpVars,
                 sectVars, sgVars, updVars>>

\* The list the caller passes to generate_summary_report: what the last
\* analyze() call returned.
LastPredictions == e_runs[Len(e_runs)].predictions

\* generate_summary_report(predictions) of root_cause_engine.py.
GenerateSummaryReport ==
    /\ e_pc = "ready"
    /\ e_runs # <<>>
    /\ ~e_runs[Len(e_runs)].raised
    /\ e_report' = [impl |-> "root_cause_engine", input |-> LastPredictions,
                    report |-> generate_summary_report(LastPredictions)]
    /\ UNCHANGED <<e_classifiers, e_enable_fallback, e_threshold, e_segments, e_clock,
                   e_runs, e_pc>>
    /\ UNCHANGED <<coordVars, ctxVars, fbVars, rceVars, tokVars, grpVars,
                 sectVars, sgVars, updVars>>

\* generate_summary_report(predictions) of segment_reference.py.
GenerateSummaryReportWithReferences ==
    /\ e_pc = "ready"
    /\ e_runs # <<>>
    /\ ~e_runs[Len(e_runs)].raised
    /\ e_report' = [impl |-> "segment_reference", input |-> LastPredictions,
                    report |-> generate_summary_report_with_references(LastPredictions)]
    /\ UNCHANGED <<e_classifiers, e_enable_fallback, e_threshold, e_segments, e_clock,
                   e_runs, e_pc>>
    /\ UNCHANGED <<coordVars, ctxVars, fbVars, rceVars, tokVars, grpVars,
                 sectVars, sgVars, updVars>>

EngineNext ==
    \/ Analyze \/ AnalyzeRaise \/ Tick
    \/ GenerateSummaryReport \/ GenerateSummaryReportWithReferences

-----------------------------------------------------------------------------
(* RootCauseAnalysisEngine of root_cause_engine.py over registry_core.py   *)

\* The token strings tried, with the needles their lower-cased text contains.
Needles(token) ==
    CASE token = "compilation failed" -> {"compilation failed"}
      [] token = "exit code: 137" -> {"exit code"}
      [] token = "Out of memory" -> {"out of memory"}
      [] token = "Java heap space" -> {"heap space"}
      [] token = "Cannot find module x" -> {"cannot find module"}
      [] OTHER -> {}

\* any(needle in t.lower() for t in seg.tokens), for the needles of a classifier.
AnyTokenContains(seg, needles) ==
    \E i \in 1..Len(seg.tokens) : Needles(seg.tokens[i]) \cap needles # {}

\* BuildFailureClassifier, OutOfMemoryClassifier and MissingDependencyClassifier
\* of registry_core.py: their needles, their confidence and their reason.
RegistryCoreClassifiers ==
    [build_failure |-> [label |-> "BUILD_FAILURE", confidence |-> 9000,
                        needles |-> {"compilation failed", "exit code"},
                        reason |-> "Build failure detected"],
     oom |-> [label |-> "OUT_OF_MEMORY", confidence |-> 8500,
              needles |-> {"out of memory", "heap space"},
              reason |-> "OOM condition detected"],
     missing_dep |-> [label |-> "MISSING_DEPENDENCY", confidence |-> 8000,
                      needles |-> {"missing dependency", "cannot find module"},
                      reason |-> "Missing dependency"]]

\* classify(segments) of one registry_core classifier: one prediction per
\* matching segment, in segment order.
BaseClassify(name, segments) ==
    LET c == RegistryCoreClassifiers[name]
        matches == SelectSeq(segments, LAMBDA seg : AnyTokenContains(seg, c.needles))
    IN [i \in 1..Len(matches) |->
          RootCausePrediction(c.label, c.confidence, <<matches[i].segment_id>>, <<>>,
                              "none", [reason |-> c.reason], "none")]

\* RootCauseClassifierRegistry.classify: the predictions of the classifiers
\* in registration order, concatenated.
RECURSIVE RootCauseClassifierRegistryClassify(_, _)
RootCauseClassifierRegistryClassify(classifiers, segments) ==
    IF classifiers = <<>> THEN <<>>
    ELSE BaseClassify(Head(classifiers), segments)
           \o RootCauseClassifierRegistryClassify(Tail(classifiers), segments)

\* RootCauseAnalysisEngine.analyze of root_cause_engine.py.
RceAnalyzeResult(classifiers, threshold, segments) ==
    FilterByThreshold(RootCauseClassifierRegistryClassify(classifiers, segments), threshold)

\* Longest segment list handed to the simple engine.
MaxRcSegs == 2

RceTokenLists ==
    { <<"compilation failed", "exit code: 137">>, <<"Out of memory", "Java heap space">>,
      <<"Out of memory", "exit code: 137">>, <<"Cannot find module x">>, <<"ok">> }

RceSegmentLists ==
    UNION { { [i \in 1..k |-> [segment_id |-> GivenId(i), tokens |-> f[i]]]
                : f \in [1..k -> RceTokenLists] } : k \in 0..MaxRcSegs }

\* Every registration order of up to three distinct classifiers.
RceRegistrations ==
    { s \in SeqsUpTo(DOMAIN RegistryCoreClassifiers, 3) :
        \A i, j \in 1..Len(s) : i # j => s[i] # s[j] }

\* confidence_threshold: the default 0.7 and a stricter one.
RceThresholds == {7000, 8500}

RceInit ==
    /\ rc_classifiers \in RceRegistrations
    /\ rc_threshold \in RceThresholds
    /\ rc_segments \in RceSegmentLists
    /\ rc_out = <<>>
    /\ rc_pc = "ready"
    \* no coordinator call in this specification
    /\ c_strategy = "weighted_score" /\ c_preds = <<>> /\ c_groups = <<>>
    /\ c_out = <<>> /\ c_pc = "off"
    \* no context analysis in this specification
    /\ ca_window = 1 /\ ca_all = <<>> /\ ca_input = <<>> /\ ca_buffer = <<>>
    /\ ca_out = <<>> /\ ca_pc = "off"
    \* no fallback classification in this specification
    /\ f_ceiling = confidence_ceiling /\ f_segments = <<>> /\ f_out = <<>>
    /\ f_pc = "off"
    \* no engine of fallback_classifier.py in this specification
    /\ e_classifiers = <<>> /\ e_enable_fallback = TRUE
    /\ e_threshold = base_confidence_threshold /\ e_segments = <<>>
    /\ e_clock = 0 /\ e_runs = <<>>
    /\ e_report = [impl |-> "none", input |-> <<>>, report |-> NoReport]
    /\ e_pc = "off"
    \* no token classification in this specification
    /\ tk_provider = "none" /\ tk_lines = <<>> /\ tk_out = <<>> /\ tk_pc = "off"
    /\ tk_context = [section |-> "none", in_test_context |-> FALSE,
                     in_stack_trace |-> FALSE]
    \* no buffered grouping in this specification
    /\ g_provider = "none" /\ g_lines = <<>> /\ g_tokens = <<>> /\ g_groups = <<>>
    /\ g_pc = "off"
    \* no section validation in this specification
    /\ sv_objs = <<>> /\ sv_sections = <<>> /\ sv_active = <<>> /\ sv_roots = <<>>
    /\ sv_issues = <<>> /\ sv_line = 0 /\ sv_last = [op |-> "none"]
    \* no section-based grouping in this specification
    /\ sg_segments = <<>> /\ sg_out = <<>> /\ sg_pc = "off"
    \* no classifier update in this specification
    /\ u_classifier = {} /\ u_groups = <<>> /\ u_bad = {} /\ u_results = <<>>
    /\ u_pc = "off"

\* analyze(segments).
RceAnalyze ==
    /\ rc_pc = "ready"
    /\ rc_out' = RceAnalyzeResult(rc_classifiers, rc_threshold, rc_segments)
    /\ rc_pc' = "done"
    /\ UNCHANGED <<rc_classifiers, rc_threshold, rc_segments>>
    /\ UNCHANGED <<coordVars, ctxVars, fbVars, engVars, tokVars, grpVars,
                 sectVars, sgVars, updVars>>

RceNext == RceAnalyze

-----------------------------------------------------------------------------
(* TokenConflictResolver (resolution.py) and EnhancedTokenClassifier       *)
(* (context_classifier.py)                                                 *)

\* severity.level of the members of TokenType (token_types.py).  The members
\* the classifier and the resolver name but the enum does not declare
\* (TEST_ERROR, CI_ERROR, CI_WARNING) have no level.
TokenTypeSeverity ==
    [SECTION_START |-> 0, COMMAND |-> 0, STACK_TRACE |-> 190, WARNING |-> 50,
     ERROR |-> 100, INFO |-> 30, DEBUG |-> 20, ASSERTION_FAIL |-> 150,
     TEST_FAILURE |-> 160, EXIT_CODE |-> 200, IGNORE |-> 0, DEFAULT |-> 0,
     EXIT_CODE_NON_ZERO |-> 201]

\* for token_type in TokenType: the members in definition order.  SECTION_END
\* and STEP carry the value of SECTION_START and are aliases of it.
TokenTypeOrder ==
    <<"SECTION_START", "COMMAND", "STACK_TRACE", "WARNING", "ERROR", "INFO", "DEBUG",
      "ASSERTION_FAIL", "TEST_FAILURE", "EXIT_CODE", "IGNORE", "DEFAULT",
      "EXIT_CODE_NON_ZERO">>

\* self.severity_order of TokenConflictResolver, with
\* self.severity_order.get(t, 999) for the kinds it does not list.
severity_order(t) ==
    LET table == [STACK_TRACE |-> 1, TEST_ERROR |-> 2, TEST_FAILURE |-> 3, ERROR |-> 4,
                  CI_ERROR |-> 5, ASSERTION_FAIL |-> 6, EXIT_CODE_NON_ZERO |-> 7,
                  WARNING |-> 8, INFO |-> 9, DEFAULT |-> 99]
    IN IF t \in DOMAIN table THEN table[t] ELSE 999

\* A log line, by what the classifier and the resolver test of it:
\*   indented    message.startswith((' ', '\t'))
\*   blank       the message is empty or holds white space only
\*   opener      one of 'Traceback', 'at ', 'caused by', 'Exception in thread'
\*               is in the message
\*   annotation  the first ##[...] annotation of the message, "none" without
\*   gl_error    "colon_space" when 'ERROR: ' is in the message, "colon" when
\*               only 'ERROR:' is, "none" otherwise
\*   patterns    the kinds of which a typical pattern is in the message
\*   level       log_line.level, "none" when empty
\*   section     log_line.section, "none" when empty
\*   has_fail, has_error   'fail' / 'error' is in message.lower()
LogLine(indented, blank, opener, annotation, gl_error, patterns, level, section, has_fail, has_error) ==
    [indented |-> indented, blank |-> blank, opener |-> opener,
     annotation |-> annotation, gl_error |-> gl_error, patterns |-> patterns,
     level |-> level, section |-> section, has_fail |-> has_fail,
     has_error |-> has_error]

\* '##[error]' in message, '##[warning]' in message, 'ERROR:' in message.
HasGithubError(line) == line.annotation = "error"
HasGithubWarning(line) == line.annotation = "warning"
HasGitlabError(line) == line.gl_error \in {"colon", "colon_space"}

\* sorted(candidates, key=...)[0]: the first candidate of the least rank.
FirstOfLeastRank(candidates) ==
    candidates[CHOOSE i \in 1..Len(candidates) :
                  /\ \A j \in 1..Len(candidates) :
                        severity_order(candidates[i]) <= severity_order(candidates[j])
                  /\ \A j \in 1..(i - 1) :
                        severity_order(candidates[j]) > severity_order(candidates[i])]

\* TokenConflictResolver.resolve_with_patterns(message, candidates, context).
resolve_with_patterns(provider, line, candidates) ==
    IF provider = "github_actions" /\ HasGithubError(line) THEN "CI_ERROR"
    ELSE IF provider = "github_actions" /\ HasGithubWarning(line) THEN "CI_WARNING"
    ELSE IF provider = "gitlab_ci" /\ HasGitlabError(line) THEN "CI_ERROR"
    ELSE FirstOfLeastRank(candidates)

\* EnhancedTokenClassifier._update_context_from_line.
_update_context_from_line(context, line) ==
    LET with_section ==
            IF line.section # "none"
            THEN [context EXCEPT !.section = line.section,
                                 !.in_test_context = (line.section = "test")]
            ELSE context
    IN IF line.opener THEN [with_section EXCEPT !.in_stack_trace = TRUE]
       ELSE IF ~line.indented THEN [with_section EXCEPT !.in_stack_trace = FALSE]
       ELSE with_section

\* EnhancedTokenClassifier._provider_specific_candidates.
_provider_specific_candidates(provider, line) ==
    IF provider = "github_actions"
    THEN IF line.annotation = "error" THEN <<"CI_ERROR">>
         ELSE IF line.annotation = "warning" THEN <<"CI_WARNING">>
         ELSE IF line.annotation = "group" THEN <<"SECTION_START">>
         ELSE <<>>
    ELSE IF provider = "gitlab_ci"
         THEN IF line.gl_error = "colon_space" THEN <<"CI_ERROR">> ELSE <<>>
         ELSE <<>>

\* The level_map lookup of _identify_candidate_types.
LevelCandidates(line) ==
    IF line.level = "error" THEN <<"ERROR">>
    ELSE IF line.level = "warning" THEN <<"WARNING">>
    ELSE IF line.level = "info" THEN <<"INFO">>
    ELSE <<>>

\* EnhancedTokenClassifier._identify_candidate_types, on the updated context.
_identify_candidate_types(provider, context, line) ==
    LET provider_candidates == _provider_specific_candidates(provider, line)
        by_pattern == SelectSeq(TokenTypeOrder,
                                LAMBDA t : /\ t \in line.patterns
                                           /\ t \notin Range(provider_candidates))
        c1 == provider_candidates \o by_pattern
        c2 == IF c1 = <<>> THEN LevelCandidates(line) ELSE c1
        c3 == IF context.in_test_context
              THEN IF line.has_fail THEN Append(c2, "TEST_FAILURE")
                   ELSE IF line.has_error THEN Append(c2, "TEST_ERROR")
                   ELSE c2
              ELSE c2
        c4 == IF context.in_stack_trace THEN Append(c3, "STACK_TRACE") ELSE c3
    IN IF c4 = <<>> THEN <<"DEFAULT">> ELSE c4

\* EnhancedTokenClassifier.classify_line: the updated context, the
\* candidates, whether the resolver was called and the resolved kind.
classify_line(provider, context, line) ==
    LET updated == _update_context_from_line(context, line)
        candidate_types == _identify_candidate_types(provider, updated, line)
    IN [context |-> updated,
        line |-> line,
        candidates |-> candidate_types,
        resolver_called |-> Len(candidate_types) > 1,
        resolved |-> IF Len(candidate_types) > 1
                     THEN resolve_with_patterns(provider, line, candidate_types)
                     ELSE candidate_types[1]]

-----------------------------------------------------------------------------
(* EnhancedTokenClassifier.process_stream as a state machine               *)

\* The longest stream of log lines tried.
MaxLines == 3

\* The log lines tried.
LogLines ==
    { \* "Traceback (most recent call last):"
      LogLine(FALSE, FALSE, TRUE, "none", "none", {"STACK_TRACE"}, "none", "none",
              FALSE, FALSE),
      \* '  File "build.py", line 3, in main'
      LogLine(TRUE, FALSE, FALSE, "none", "none", {}, "none", "none", FALSE, FALSE),
      \* "Build finished"
      LogLine(FALSE, FALSE, FALSE, "none", "none", {}, "info", "build", FALSE, FALSE),
      \* ""
      LogLine(FALSE, TRUE, FALSE, "none", "none", {}, "none", "none", FALSE, FALSE),
      \* "   "
      LogLine(TRUE, TRUE, FALSE, "none", "none", {}, "none", "none", FALSE, FALSE),
      \* "  ##[error]Process completed"
      LogLine(TRUE, FALSE, FALSE, "error", "none", {"ERROR"}, "none", "none",
              FALSE, TRUE),
      \* "ERROR:job halted"
      LogLine(FALSE, FALSE, FALSE, "none", "colon", {}, "none", "none", FALSE, TRUE),
      \* "ERROR: Job failed: exit code 1"
      LogLine(FALSE, FALSE, FALSE, "none", "colon_space", {"ERROR", "EXIT_CODE_NON_ZERO"},
              "error", "none", TRUE, TRUE),
      \* "AssertionError: expected 3"
      LogLine(FALSE, FALSE, FALSE, "none", "none", {"ERROR", "ASSERTION_FAIL"},
              "error", "test", FALSE, TRUE) }

TokenProviders == {"github_actions", "gitlab_ci", "none"}

TokInit ==
    /\ tk_provider \in TokenProviders
    /\ tk_lines \in SeqsUpTo(LogLines, MaxLines)
    /\ tk_context = [section |-> "none", in_test_context |-> FALSE,
                     in_stack_trace |-> FALSE]
    /\ tk_out = <<>>
    /\ tk_pc = "ready"
    \* no coordinator call in this specification
    /\ c_strategy = "weighted_score" /\ c_preds = <<>> /\ c_groups = <<>>
    /\ c_out = <<>> /\ c_pc = "off"
    \* no context analysis in this specification
    /\ ca_window = 1 /\ ca_all = <<>> /\ ca_input = <<>> /\ ca_buffer = <<>>
    /\ ca_out = <<>> /\ ca_pc = "off"
    \* no fallback classification in this specification
    /\ f_ceiling = confidence_ceiling /\ f_segments = <<>> /\ f_out = <<>>
    /\ f_pc = "off"
    \* no engine of fallback_classifier.py in this specification
    /\ e_classifiers = <<>> /\ e_enable_fallback = TRUE
    /\ e_threshold = base_confidence_threshold /\ e_segments = <<>>
    /\ e_clock = 0 /\ e_runs = <<>>
    /\ e_report = [impl |-> "none", input |-> <<>>, report |-> NoReport]
    /\ e_pc = "off"
    \* no engine of root_cause_engine.py in this specification
    /\ rc_classifiers = <<>> /\ rc_threshold = 7000 /\ rc_segments = <<>>
    /\ rc_out = <<>> /\ rc_pc = "off"
    \* no buffered grouping in this specification
    /\ g_provider = "none" /\ g_lines = <<>> /\ g_tokens = <<>> /\ g_groups = <<>>
    /\ g_pc = "off"
    \* no section validation in this specification
    /\ sv_objs = <<>> /\ sv_sections = <<>> /\ sv_active = <<>> /\ sv_roots = <<>>
    /\ sv_issues = <<>> /\ sv_line = 0 /\ sv_last = [op |-> "none"]
    \* no section-based grouping in this specification
    /\ sg_segments = <<>> /\ sg_out = <<>> /\ sg_pc = "off"
    \* no classifier update in this specification
    /\ u_classifier = {} /\ u_groups = <<>> /\ u_bad = {} /\ u_results = <<>>
    /\ u_pc = "off"

\* for line in log_lines: yield self.classify_line(line)
ClassifyLine ==
    /\ tk_pc = "ready"
    /\ tk_lines # <<>>
    /\ \E r \in {classify_line(tk_provider, tk_context, Head(tk_lines))} :
          /\ tk_context' = r.context
          /\ tk_out' = Append(tk_out, r)
    /\ tk_lines' = Tail(tk_lines)
    /\ UNCHANGED <<tk_provider, tk_pc>>
    /\ UNCHANGED <<coordVars, ctxVars, fbVars, engVars, rceVars, grpVars,
                 sectVars, sgVars, updVars>>

\* The stream is exhausted.
ClassifyDone ==
    /\ tk_pc = "ready"
    /\ tk_lines = <<>>
    /\ tk_pc' = "done"
    /\ UNCHANGED <<tk_provider, tk_lines, tk_context, tk_out>>
    /\ UNCHANGED <<coordVars, ctxVars, fbVars, engVars, rceVars, grpVars,
                 sectVars, sgVars, updVars>>

TokNext == ClassifyLine \/ ClassifyDone

-----------------------------------------------------------------------------
(* ConflictAwareTokenizationPipeline.process (pipeline_factory.py)         *)

\* A line as process() sees it: the LogLine and its stream_type.
SourceLine(line, stream_type) == [line |-> line, stream_type |-> stream_type]

\* The first loop of process(): one token per line, classified in order by
\* one EnhancedTokenClassifier, whose context runs from line to line.
RECURSIVE classify_lines(_, _, _)
classify_lines(provider, context, log_lines) ==
    IF log_lines = <<>> THEN <<>>
    ELSE LET r == classify_line(provider, context, Head(log_lines).line)
         IN <<[type |-> r.resolved, source_line |-> Head(log_lines)]>>
            \o classify_lines(provider, r.context, Tail(log_lines))

\* _allow_cross_section(current_group, next_token); the group holds the
\* positions of its tokens.
_allow_cross_section(tokens, current_group, next_token) ==
    IF current_group = <<>> THEN FALSE
    ELSE LET last_token == tokens[current_group[Len(current_group)]]
         IN \/ last_token.type = "STACK_TRACE" /\ next_token.type = "STACK_TRACE"
            \/ /\ last_token.type = "ERROR"
               /\ next_token.type \in {"ERROR", "STACK_TRACE"}

\* _allow_cross_stream(current_group, next_token): False on an empty group;
\* otherwise last_token.type.severity, a TokenTypeSeverity object, is compared
\* with the int TokenTypeSeverity(100, "error").level by >=, which raises
\* TypeError.
_allow_cross_stream(tokens, current_group, next_token) ==
    IF current_group = <<>> THEN "False" ELSE "TypeError"

\* _is_group_separator(token): the name of the kind, or the value under
\* github_actions ('##[group]' at the start of the value; none of the lines
\* tried holds '##[endgroup]', nor the markers tested under gitlab_ci).
_is_group_separator(provider, token) ==
    \/ token.type = "SECTION_START"
    \/ /\ provider = "github_actions"
       /\ token.source_line.line.annotation = "group"
       /\ ~token.source_line.line.indented

\* grouped_tokens.append(current_group); current_group = [] when the group
\* is not empty.
FlushGroup(st) ==
    IF st.current_group # <<>>
    THEN [st EXCEPT !.grouped = Append(@, st.current_group), !.current_group = <<>>]
    ELSE st

\* One pass of the grouping loop, for the token at position i.
GroupToken(provider, tokens, st, i) ==
    LET token == tokens[i]
        section == token.source_line.line.section
        stream_type == token.source_line.stream_type
        s1 == IF /\ st.current_section # "none"
                 /\ section # st.current_section
                 /\ ~_allow_cross_section(tokens, st.current_group, token)
              THEN FlushGroup(st)
              ELSE st
        verdict == IF s1.current_stream # "none" /\ stream_type # s1.current_stream
                   THEN _allow_cross_stream(tokens, s1.current_group, token)
                   ELSE "True"
        s2 == IF verdict = "False" THEN FlushGroup(s1) ELSE s1
        s3 == [s2 EXCEPT !.current_section = section,
                         !.current_stream = stream_type,
                         !.current_group = Append(@, i)]
    IN IF verdict = "TypeError" THEN [s1 EXCEPT !.raised = TRUE]
       ELSE IF _is_group_separator(provider, token)
            THEN [s3 EXCEPT !.grouped = Append(@, s3.current_group),
                            !.current_group = <<>>]
            ELSE s3

\* The grouping loop from position i on, and the flush of the last group.
RECURSIVE group_tokens(_, _, _, _)
group_tokens(provider, tokens, st, i) ==
    IF st.raised THEN st
    ELSE IF i > Len(tokens) THEN FlushGroup(st)
    ELSE group_tokens(provider, tokens, GroupToken(provider, tokens, st, i), i + 1)

\* The longest input of process() tried.
MaxGroupLines == 3

GroupStreams == {"stdout", "stderr"}

\* The lines tried: in the sections build and deploy and on both streams a
\* stack-trace opener, a message of level error matching an ERROR pattern,
\* and a message of level info; an indented line; an error outside any
\* section; a '##[group]' annotation.
GroupLines ==
    { SourceLine(LogLine(FALSE, FALSE, sh.opener, "none", "none", sh.patterns, sh.level, section, FALSE, sh.has_error), stream) :
        sh \in { [opener |-> TRUE, patterns |-> {"STACK_TRACE"}, level |-> "none",
                  has_error |-> FALSE],
                 [opener |-> FALSE, patterns |-> {"ERROR"}, level |-> "error",
                  has_error |-> TRUE],
                 [opener |-> FALSE, patterns |-> {}, level |-> "info",
                  has_error |-> FALSE] },
        section \in {"build", "deploy"},
        stream \in GroupStreams }
    \cup { SourceLine(LogLine(TRUE, FALSE, FALSE, "none", "none", {}, "none", "deploy", FALSE, FALSE), "stdout"),
           SourceLine(LogLine(FALSE, FALSE, FALSE, "none", "none", {"ERROR"}, "error", "none", FALSE, TRUE), "stdout"),
           SourceLine(LogLine(FALSE, FALSE, FALSE, "group", "none", {}, "none", "deploy", FALSE, FALSE), "stdout") }

GroupProviders == {"github_actions", "none"}

GroupInit ==
    /\ g_provider \in GroupProviders
    /\ g_lines \in SeqsUpTo(GroupLines, MaxGroupLines)
    /\ g_tokens = <<>>
    /\ g_groups = <<>>
    /\ g_pc = "ready"
    \* no coordinator call in this specification
    /\ c_strategy = "weighted_score" /\ c_preds = <<>> /\ c_groups = <<>>
    /\ c_out = <<>> /\ c_pc = "off"
    \* no context analysis in this specification
    /\ ca_window = 1 /\ ca_all = <<>> /\ ca_input = <<>> /\ ca_buffer = <<>>
    /\ ca_out = <<>> /\ ca_pc = "off"
    \* no fallback classification in this specification
    /\ f_ceiling = confidence_ceiling /\ f_segments = <<>> /\ f_out = <<>>
    /\ f_pc = "off"
    \* no engine of fallback_classifier.py in this specification
    /\ e_classifiers = <<>> /\ e_enable_fallback = TRUE
    /\ e_threshold = base_confidence_threshold /\ e_segments = <<>>
    /\ e_clock = 0 /\ e_runs = <<>>
    /\ e_report = [impl |-> "none", input |-> <<>>, report |-> NoReport]
    /\ e_pc = "off"
    \* no engine of root_cause_engine.py in this specification
    /\ rc_classifiers = <<>> /\ rc_threshold = 7000 /\ rc_segments = <<>>
    /\ rc_out = <<>> /\ rc_pc = "off"
    \* no separate token classifier in this specification
    /\ tk_provider = "none" /\ tk_lines = <<>> /\ tk_out = <<>> /\ tk_pc = "off"
    /\ tk_context = [section |-> "none", in_test_context |-> FALSE,
                     in_stack_trace |-> FALSE]
    \* no section validation in this specification
    /\ sv_objs = <<>> /\ sv_sections = <<>> /\ sv_active = <<>> /\ sv_roots = <<>>
    /\ sv_issues = <<>> /\ sv_line = 0 /\ sv_last = [op |-> "none"]
    \* no section-based grouping in this specification
    /\ sg_segments = <<>> /\ sg_out = <<>> /\ sg_pc = "off"
    \* no classifier update in this specification
    /\ u_classifier = {} /\ u_groups = <<>> /\ u_bad = {} /\ u_results = <<>>
    /\ u_pc = "off"

\* What process() computes of its input: the classified tokens and the
\* state of the grouping loop when it ends or raises.
ProcessRun(provider, log_lines) ==
    LET tokens == classify_lines(provider,
                                 [section |-> "none", in_test_context |-> FALSE,
                                  in_stack_trace |-> FALSE],
                                 log_lines)
    IN [tokens |-> tokens,
        final |-> group_tokens(provider, tokens,
                               [grouped |-> <<>>, current_group |-> <<>>,
                                current_section |-> "none",
                                current_stream |-> "none", raised |-> FALSE],
                               1)]

\* process(log_lines) returns its segments, one per group.
Process ==
    /\ g_pc = "ready"
    /\ \E r \in {ProcessRun(g_provider, g_lines)} :
          /\ ~r.final.raised
          /\ g_tokens' = r.tokens
          /\ g_groups' = r.final.grouped
    /\ g_pc' = "done"
    /\ UNCHANGED <<g_provider, g_lines>>
    /\ UNCHANGED <<coordVars, ctxVars, fbVars, engVars, rceVars, tokVars,
                 sectVars, sgVars, updVars>>

\* process(log_lines) raises TypeError out of _allow_cross_stream.
ProcessRaise ==
    /\ g_pc = "ready"
    /\ \E r \in {ProcessRun(g_provider, g_lines)} :
          /\ r.final.raised
          /\ g_tokens' = r.tokens
    /\ g_groups' = <<>>
    /\ g_pc' = "raised"
    /\ UNCHANGED <<g_provider, g_lines>>
    /\ UNCHANGED <<coordVars, ctxVars, fbVars, engVars, rceVars, tokVars,
                 sectVars, sgVars, updVars>>

GroupNext == Process \/ ProcessRaise

-----------------------------------------------------------------------------
(* SectionValidator (utils/section_validator.py)                           *)

\* The fields of the validator as one record; a Section object is named by
\* its position in objs, 0 stands for None.  Of a Section the start and end
\* lines, the parent, the children and the issues are kept; the timestamps
\* and the collapsed flag are written where the lines are written.
ValidatorState ==
    [objs |-> sv_objs, sections |-> sv_sections, active |-> sv_active,
     roots |-> sv_roots, issues |-> sv_issues]

\* A Section that counts as complete whatever its end_line.
AlwaysComplete(st, obj) == TRUE

\* Section.is_complete: end_line is not None.
is_complete(st, obj) == st.objs[obj].end_line # 0

\* An issue that is not recorded.
IssueNotRecorded(st, level, message, section_name, line_number) == st

\* _add_validation_issue: the issue is appended to self.validation_issues
\* and, when the name is in self.sections, to the issues of the Section the
\* name is bound to.
_add_validation_issue(st, level, message, section_name, line_number) ==
    LET issue == [level |-> level, message |-> message,
                  section_name |-> section_name, line_number |-> line_number]
        st1 == [st EXCEPT !.issues = Append(@, issue)]
    IN IF st.sections[section_name] # 0
       THEN [st1 EXCEPT !.objs[st.sections[section_name]].validation_issues =
                             Append(@, level)]
       ELSE st1

\* _auto_close_section(section, line_number).
_auto_close_section(st, obj, line_number) ==
    IF is_complete(st, obj) THEN st
    ELSE _add_validation_issue([st EXCEPT !.objs[obj].end_line = line_number],
                               "info", "auto_closed", st.objs[obj].name, line_number)

\* start_section(name, line_number, ...): the state after the call and the
\* Section returned.
start_section(st, name, line_number) ==
    LET existing == st.sections[name]
        warned == IF existing # 0
                  THEN _add_validation_issue(st, "warning", "duplicate_start", name,
                                             line_number)
                  ELSE st
        section == Len(warned.objs) + 1
        parent == IF warned.active # <<>> THEN warned.active[Len(warned.active)] ELSE 0
        created == [warned EXCEPT
                       !.objs = Append(@, [name |-> name, start_line |-> line_number,
                                           end_line |-> 0, parent |-> parent,
                                           children |-> <<>>,
                                           validation_issues |-> <<>>]),
                       !.sections[name] = section]
        linked == IF parent # 0
                  THEN [created EXCEPT !.objs[parent].children = Append(@, section)]
                  ELSE [created EXCEPT !.roots = Append(@, section)]
    IN IF existing # 0 /\ ~is_complete(warned, existing)
       THEN [st |-> [warned EXCEPT !.objs[existing].start_line = line_number],
             returned |-> existing]
       ELSE [st |-> [linked EXCEPT !.active = Append(@, section)],
             returned |-> section]

\* for i in range(len(self.active_sections) - 1, idx, -1): auto-close the
\* section at (1-based) position i of the stack and record the warning.
RECURSIVE CloseIntervening(_, _, _, _)
CloseIntervening(st, i, idx, line_number) ==
    IF i <= idx THEN st
    ELSE LET orphaned == st.active[i]
             closed == _auto_close_section(st, orphaned, line_number)
         IN CloseIntervening(
                _add_validation_issue(closed, "warning", "auto_closing_nested",
                                      st.objs[orphaned].name, line_number),
                i - 1, idx, line_number)

\* end_section(name, line_number, ...): the state after the call and the
\* Section returned (0 for None).
end_section(st, name, line_number) ==
    LET section == st.sections[name]
        closed == [st EXCEPT !.objs[section].end_line = line_number]
        top_name(s) == s.objs[s.active[Len(s.active)]].name
        named == {i \in 1..Len(st.active) : st.objs[st.active[i]].name = name}
        nested == IF closed.active # <<>> /\ top_name(closed) # name
                  THEN IF named # {}
                       THEN CloseIntervening(closed, Len(closed.active),
                                             CHOOSE i \in named : \A j \in named : i <= j,
                                             line_number)
                       ELSE _add_validation_issue(closed, "error", "inconsistent_nesting",
                                                  name, line_number)
                  ELSE closed
        popped == IF nested.active # <<>> /\ top_name(nested) = name
                  THEN [nested EXCEPT !.active = SubSeq(@, 1, Len(@) - 1)]
                  ELSE nested
    IN IF section = 0
       THEN [st |-> _add_validation_issue(st, "error", "end_without_start", name,
                                          line_number),
             returned |-> 0]
       ELSE IF is_complete(st, section)
       THEN [st |-> _add_validation_issue(st, "warning", "duplicate_end", name,
                                          line_number),
             returned |-> section]
       ELSE [st |-> popped, returned |-> section]

-----------------------------------------------------------------------------
(* SectionBasedGrouping.group (grouping.py)                                *)

\* One pass of the for loop, for the segment at position i; a segment is
\* its context type, a group the list of the positions of its segments.
GroupSegment(segments, st, i) ==
    LET grouped == <<st.current_section>> \o st.buffer
    IN IF segments[i] = "section_start"
       THEN [current_section |-> i, buffer |-> <<>>,
             out |-> IF st.current_section # 0 /\ st.buffer # <<>>
                     THEN Append(st.out, grouped) ELSE st.out]
       ELSE IF segments[i] = "section_end" /\ st.current_section # 0
       THEN [current_section |-> 0, buffer |-> <<>>,
             out |-> Append(st.out, Append(grouped, i))]
       ELSE IF st.current_section # 0
       THEN [st EXCEPT !.buffer = Append(@, i)]
       ELSE [st EXCEPT !.out = Append(@, <<i>>)]

\* group(segments), consumed to its end: the GroupedSegments yielded.
RECURSIVE SectionBasedGrouping_group(_, _, _)
SectionBasedGrouping_group(segments, st, i) ==
    IF i > Len(segments)
    THEN IF st.current_section # 0 /\ st.buffer # <<>>
         THEN Append(st.out, <<st.current_section>> \o st.buffer)
         ELSE st.out
    ELSE SectionBasedGrouping_group(segments, GroupSegment(segments, st, i), i + 1)

-----------------------------------------------------------------------------
(* The section validator and the section grouping as a state machine       *)

\* The most markers handed to the validator.
MaxSectCalls == 4
\* The longest segment stream handed to group().
MaxSgSegments == 3

SectionNames == {"build", "test"}

SegmentTypes == {"section_start", "section_end", "other"}

SectionsInit ==
    /\ sv_objs = <<>>
    /\ sv_sections = [n \in SectionNames |-> 0]
    /\ sv_active = <<>>
    /\ sv_roots = <<>>
    /\ sv_issues = <<>>
    /\ sv_line = 0
    /\ sv_last = [op |-> "none"]
    /\ sg_segments \in SeqsUpTo(SegmentTypes, MaxSgSegments)
    /\ sg_out = <<>>
    /\ sg_pc = "ready"
    \* no coordinator call in this specification
    /\ c_strategy = "weighted_score" /\ c_preds = <<>> /\ c_groups = <<>>
    /\ c_out = <<>> /\ c_pc = "off"
    \* no context analysis in this specification
    /\ ca_window = 1 /\ ca_all = <<>> /\ ca_input = <<>> /\ ca_buffer = <<>>
    /\ ca_out = <<>> /\ ca_pc = "off"
    \* no fallback classification in this specification
    /\ f_ceiling = confidence_ceiling /\ f_segments = <<>> /\ f_out = <<>>
    /\ f_pc = "off"
    \* no engine of fallback_classifier.py in this specification
    /\ e_classifiers = <<>> /\ e_enable_fallback = TRUE
    /\ e_threshold = base_confidence_threshold /\ e_segments = <<>>
    /\ e_clock = 0 /\ e_runs = <<>>
    /\ e_report = [impl |-> "none", input |-> <<>>, report |-> NoReport]
    /\ e_pc = "off"
    \* no engine of root_cause_engine.py in this specification
    /\ rc_classifiers = <<>> /\ rc_threshold = 7000 /\ rc_segments = <<>>
    /\ rc_out = <<>> /\ rc_pc = "off"
    \* no token classification in this specification
    /\ tk_provider = "none" /\ tk_lines = <<>> /\ tk_out = <<>> /\ tk_pc = "off"
    /\ tk_context = [section |-> "none", in_test_context |-> FALSE,
                     in_stack_trace |-> FALSE]
    \* no buffered grouping in this specification
    /\ g_provider = "none" /\ g_lines = <<>> /\ g_tokens = <<>> /\ g_groups = <<>>
    /\ g_pc = "off"
    \* no classifier update in this specification
    /\ u_classifier = {} /\ u_groups = <<>> /\ u_bad = {} /\ u_results = <<>>
    /\ u_pc = "off"

\* A start marker is read: start_section(name, line_number, ...).
StartSection ==
    /\ sv_line < MaxSectCalls
    /\ \E name \in SectionNames :
          \E r \in {start_section(ValidatorState, name, sv_line + 1)} :
              /\ sv_objs' = r.st.objs
              /\ sv_sections' = r.st.sections
              /\ sv_active' = r.st.active
              /\ sv_roots' = r.st.roots
              /\ sv_issues' = r.st.issues
              /\ sv_last' = [op |-> "start", name |-> name, returned |-> r.returned,
                             before |-> ValidatorState]
    /\ sv_line' = sv_line + 1
    /\ UNCHANGED <<coordVars, ctxVars, fbVars, engVars, rceVars, tokVars, grpVars,
                 sgVars, updVars>>

\* An end marker is read: end_section(name, line_number, ...).
EndSection ==
    /\ sv_line < MaxSectCalls
    /\ \E name \in SectionNames :
          \E r \in {end_section(ValidatorState, name, sv_line + 1)} :
              /\ sv_objs' = r.st.objs
              /\ sv_sections' = r.st.sections
              /\ sv_active' = r.st.active
              /\ sv_roots' = r.st.roots
              /\ sv_issues' = r.st.issues
              /\ sv_last' = [op |-> "end", name |-> name, returned |-> r.returned,
                             before |-> ValidatorState]
    /\ sv_line' = sv_line + 1
    /\ UNCHANGED <<coordVars, ctxVars, fbVars, engVars, rceVars, tokVars, grpVars,
                 sgVars, updVars>>

\* SectionBasedGrouping.group(segments), the generator consumed to its end.
SectionGroup ==
    /\ sg_pc = "ready"
    /\ sg_out' = SectionBasedGrouping_group(sg_segments,
                    [current_section |-> 0, buffer |-> <<>>, out |-> <<>>], 1)
    /\ sg_pc' = "done"
    /\ UNCHANGED sg_segments
    /\ UNCHANGED <<coordVars, ctxVars, fbVars, engVars, rceVars, tokVars, grpVars,
                 sectVars, updVars>>

SectionsNext == StartSection \/ EndSection \/ SectionGroup

-----------------------------------------------------------------------------
(* SafeClassifierUpdater (safe_classifier_updater.py)                      *)

\* The collaborators are handed to the constructor; they are taken by what
\* their calls are for.  The classifier is the set of feedback groups it
\* reflects: classifier_snapshot.create copies it, classifier_updater
\* .apply_group adds the group, classifier_snapshot.restore puts the copy
\* back, and performance_evaluator.evaluate detects a regression when the
\* classifier reflects a group of `bad`.

\* The for loop of apply_feedback_batch from the group at position i on: the
\* classifier and the results at its end.
RECURSIVE apply_groups(_, _, _, _, _)
apply_groups(st, snapshot, update_groups, bad, i) ==
    IF i > Len(update_groups) THEN st
    ELSE LET group_i == update_groups[i]
             applied == st.classifier \cup {group_i}
             regression_detected == applied \cap bad # {}
         IN apply_groups(
                IF regression_detected
                THEN [classifier |-> snapshot,
                      results |-> Append(st.results,
                                         [group |-> group_i, status |-> "rolled_back"])]
                ELSE [classifier |-> applied,
                      results |-> Append(st.results,
                                         [group |-> group_i, status |-> "applied"])],
                snapshot, update_groups, bad, i + 1)

\* apply_feedback_batch(classifier, validated_feedback): the snapshot is
\* created once, before the loop.
apply_feedback_batch(classifier, update_groups, bad) ==
    apply_groups([classifier |-> classifier, results |-> <<>>], classifier,
                 update_groups, bad, 1)

\* The most feedback groups in a batch.
MaxUpdateGroups == 3

\* The feedback groups tried, one per label.
FeedbackGroups == {"g_oom", "g_timeout", "g_network", "g_disk"}

\* The lists of distinct groups, as group_by_related_labels returns them.
UpdateGroupLists ==
    {s \in SeqsUpTo(FeedbackGroups, MaxUpdateGroups) :
        \A i, j \in 1..Len(s) : i # j => s[i] # s[j]}

UpdaterInit ==
    /\ u_classifier \in {{}, {"base"}}
    /\ u_groups \in UpdateGroupLists
    /\ u_bad \in SUBSET FeedbackGroups
    /\ u_results = <<>>
    /\ u_pc = "ready"
    \* no coordinator call in this specification
    /\ c_strategy = "weighted_score" /\ c_preds = <<>> /\ c_groups = <<>>
    /\ c_out = <<>> /\ c_pc = "off"
    \* no context analysis in this specification
    /\ ca_window = 1 /\ ca_all = <<>> /\ ca_input = <<>> /\ ca_buffer = <<>>
    /\ ca_out = <<>> /\ ca_pc = "off"
    \* no fallback classification in this specification
    /\ f_ceiling = confidence_ceiling /\ f_segments = <<>> /\ f_out = <<>>
    /\ f_pc = "off"
    \* no engine of fallback_classifier.py in this specification
    /\ e_classifiers = <<>> /\ e_enable_fallback = TRUE
    /\ e_threshold = base_confidence_threshold /\ e_segments = <<>>
    /\ e_clock = 0 /\ e_runs = <<>>
    /\ e_report = [impl |-> "none", input |-> <<>>, report |-> NoReport]
    /\ e_pc = "off"
    \* no engine of root_cause_engine.py in this specification
    /\ rc_classifiers = <<>> /\ rc_threshold = 7000 /\ rc_segments = <<>>
    /\ rc_out = <<>> /\ rc_pc = "off"
    \* no token classification in this specification
    /\ tk_provider = "none" /\ tk_lines = <<>> /\ tk_out = <<>> /\ tk_pc = "off"
    /\ tk_context = [section |-> "none", in_test_context |-> FALSE,
                     in_stack_trace |-> FALSE]
    \* no buffered grouping in this specification
    /\ g_provider = "none" /\ g_lines = <<>> /\ g_tokens = <<>> /\ g_groups = <<>>
    /\ g_pc = "off"
    \* no section validation in this specification
    /\ sv_objs = <<>> /\ sv_sections = <<>> /\ sv_active = <<>> /\ sv_roots = <<>>
    /\ sv_issues = <<>> /\ sv_line = 0 /\ sv_last = [op |-> "none"]
    \* no section-based grouping in this specification
    /\ sg_segments = <<>> /\ sg_out = <<>> /\ sg_pc = "off"

\* apply_feedback_batch(classifier, validated_feedback) returns its results.
ApplyFeedbackBatch ==
    /\ u_pc = "ready"
    /\ \E r \in {apply_feedback_batch(u_classifier, u_groups, u_bad)} :
          /\ u_classifier' = r.classifier
          /\ u_results' = r.results
    /\ u_pc' = "done"
    /\ UNCHANGED <<u_groups, u_bad>>
    /\ UNCHANGED <<coordVars, ctxVars, fbVars, engVars, rceVars, tokVars, grpVars,
                 sectVars, sgVars>>

UpdaterNext == ApplyFeedbackBatch

-----------------------------------------------------------------------------
(* Specifications                                                          *)

SpecCoord ==
    /\ CoordInit
    /\ [][CoordNext]_vars

SpecCoordCross ==
    /\ CoordCrossInit
    /\ [][CoordNext]_vars

SpecCtx ==
    /\ CtxInit
    /\ [][CtxNext]_vars

SpecFallback ==
    /\ FallbackInit
    /\ [][FallbackNext]_vars

SpecEngine ==
    /\ EngineInit
    /\ [][EngineNext]_vars

SpecRce ==
    /\ RceInit
    /\ [][RceNext]_vars

SpecTok ==
    /\ TokInit
    /\ [][TokNext]_vars

SpecGroup ==
    /\ GroupInit
    /\ [][GroupNext]_vars

SpecSections ==
    /\ SectionsInit
    /\ [][SectionsNext]_vars

SpecUpdater ==
    /\ UpdaterInit
    /\ [][UpdaterNext]_vars

-----------------------------------------------------------------------------
(* Claims about the coordinator                                            *)

SegmentSet(p) == Range(p.segment_ids)

\* Jaccard similarity of a and b strictly below segment_overlap_threshold;
\* two empty sets share no segment and count as below.
JaccardBelowThreshold(a, b) ==
    \/ a \cup b = {}
    \/ Cardinality(a \cap b) * segment_overlap_threshold_den
          < segment_overlap_threshold_num * Cardinality(a \cup b)

CoordFiltered == FilterByThreshold(c_preds, base_confidence_threshold)

\* current_segments of a group when the prediction at index k was scanned:
\* the segment ids of the group's members that precede k.
AccumulatedBefore(group, k) ==
    UNION {SegmentSet(CoordFiltered[m]) : m \in {x \in Range(group) : x < k}}

\* C1 as stated: any two distinct predictions returned by coordinate() have
\* segment-id sets whose Jaccard similarity is strictly below the threshold.
C1_OutputPairwiseBelowThreshold ==
    c_pc = "done" =>
        \A i, j \in 1..Len(c_out) :
            i # j => JaccardBelowThreshold(SegmentSet(c_out[i]), SegmentSet(c_out[j]))

\* C1 amended: coordinate() returns one prediction per conflict group, each a
\* member of its group, and every member of a later group with a non-empty
\* segment-id set has Jaccard similarity strictly below the threshold with
\* the segment ids accumulated by each earlier group when it was scanned (the
\* union over the earlier group's members that precede it in the input).
C1_LaterGroupsBelowAccumulated ==
    c_pc = "done" =>
        /\ Len(c_out) = Len(c_groups)
        /\ \A i \in 1..Len(c_out) :
              \E g \in 1..Len(c_groups) :
                  c_out[i] \in Range(GroupMembers(CoordFiltered, c_groups[g]))
        /\ \A g, h \in 1..Len(c_groups) :
              g < h =>
                \A k \in Range(c_groups[h]) :
                    \/ SegmentSet(CoordFiltered[k]) = {}
                    \/ AccumulatedBefore(c_groups[g], k) = {}
                    \/ JaccardBelowThreshold(AccumulatedBefore(c_groups[g], k),
                                             SegmentSet(CoordFiltered[k]))

\* Witness of C1: coordinate() returned two predictions that overlap at or
\* above the threshold, one of them the winner of a group of several.
C1_Witness ==
    /\ c_pc = "done"
    /\ \E g \in 1..Len(c_groups) : Len(c_groups[g]) >= 2
    /\ \E i, j \in 1..Len(c_out) :
          /\ i # j
          /\ ~JaccardBelowThreshold(SegmentSet(c_out[i]), SegmentSet(c_out[j]))

\* confidence x label_priority x evidence_strength x provider_factor, as the
\* specification gives it.
SpecWeightedScore(p) ==
    p.confidence
      * (IF p.label \in DOMAIN label_priority_map THEN label_priority_map[p.label] ELSE 10)
      * Min(100, 80 + 5 * Len(p.supporting_tokens) + 2 * Len(p.segment_ids))
      * (IF p.provider_context.provider \in {"github", "gitlab", "jenkins", "travis"}
         THEN 21 ELSE 20)

\* The case of C7: coordinate() was given exactly two predictions at or above
\* the threshold with identical non-empty segment-id sets, under weighted_score.
C7_Case ==
    /\ c_strategy = "weighted_score"
    /\ Len(c_preds) = 2
    /\ c_preds[1].confidence >= base_confidence_threshold
    /\ c_preds[2].confidence >= base_confidence_threshold
    /\ SegmentSet(c_preds[1]) = SegmentSet(c_preds[2])
    /\ SegmentSet(c_preds[1]) # {}

-----------------------------------------------------------------------------
(* Claims about the context analyzer                                       *)

Occurrences(seq, x) == Cardinality({i \in 1..Len(seq) : seq[i] = x})

\* C4 as stated: when the generator has finished, every input segment has
\* been yielded exactly once.
C4_EachSegmentYieldedOnce ==
    ca_pc = "done" => \A x \in Range(ca_all) : Occurrences(ca_out, x) = 1

-----------------------------------------------------------------------------
(* Claims about the fallback classifier                                    *)

\* C8 as stated: every prediction returned by FallbackClassifier.classify has
\* a confidence strictly less than confidence_ceiling.
C8_ConfidenceBelowCeiling ==
    f_pc = "done" => \A i \in 1..Len(f_out) : f_out[i].confidence < f_ceiling

\* C8 amended: every prediction returned by FallbackClassifier.classify has a
\* confidence at most confidence_ceiling; the ceiling itself is reached.
C8_ConfidenceAtMostCeiling ==
    f_pc = "done" => \A i \in 1..Len(f_out) : f_out[i].confidence <= f_ceiling

\* Witness of C8: the ERROR+COMMAND heuristic gave COMMAND_FAILURE with a
\* confidence equal to the ceiling.
C8_Witness ==
    /\ f_pc = "done"
    /\ \E i \in 1..Len(f_out) :
          /\ f_out[i].label = "COMMAND_FAILURE"
          /\ f_out[i].confidence = f_ceiling

\* C10 as stated, for the fallback classifier: every id in the segment_ids of
\* a returned prediction is the id of one of the segments passed to classify.
C10_SegmentIdsAmongPassedSegments ==
    f_pc = "done" =>
        \A i \in 1..Len(f_out) :
            \A id \in Range(f_out[i].segment_ids) :
                \E j \in 1..Len(f_segments) : f_segments[j].id = id

-----------------------------------------------------------------------------
(* Claims about the engines                                                *)

\* C2 as stated: the list returned by analyze() has confidences that are
\* non-increasing in list order.
C2_ConfidencesNonIncreasing ==
    rc_pc = "done" =>
        \A i \in 1..(Len(rc_out) - 1) : rc_out[i].confidence >= rc_out[i + 1].confidence

\* C3 as stated: analyze() given at least one segment returns at least one
\* prediction.
C3_NeverEmptyForNonEmptyInput ==
    \A k \in 1..Len(e_runs) :
        (~e_runs[k].raised /\ e_runs[k].input # <<>>) => e_runs[k].predictions # <<>>

\* C5 as stated: two analyze() calls on the same engine with the same segment
\* list return identical prediction lists, metadata included.
C5_AnalyzeIdempotent ==
    \A k \in 1..(Len(e_runs) - 1) :
        (~e_runs[k].raised /\ ~e_runs[k + 1].raised)
            => e_runs[k].predictions = e_runs[k + 1].predictions

\* Every analyze([]) call returned the empty list.
EmptyInputGivesEmptyList ==
    \A k \in 1..Len(e_runs) :
        e_runs[k].input = <<>> => (~e_runs[k].raised /\ e_runs[k].predictions = <<>>)

C9_RuleExceptionDoesNotEscape ==
    \A k \in 1..Len(e_runs) : ~e_runs[k].raised

\* C11 as stated: after analyze() returns, every field of every input segment
\* has the value it had before the call.
C11_SegmentsUnchangedByAnalyze ==
    \A k \in 1..Len(e_runs) :
        ~e_runs[k].raised => e_runs[k].segments = e_runs[k].input

\* C12 as stated: when analyze() is called with zero segments, the fallback
\* classifier is never invoked during that run.
C12_NoFallbackCallOnEmptyInput ==
    \A k \in 1..Len(e_runs) :
        (~e_runs[k].raised /\ e_runs[k].input = <<>>) => ~e_runs[k].fallback_invoked

\* C12 amended: when analyze() is called with zero segments, the fallback
\* classifier is called exactly when enable_fallback is set, it adds no
\* prediction, no last-resort prediction is made, and analyze() returns [].
C12_FallbackCallOnEmptyInputAddsNothing ==
    \A k \in 1..Len(e_runs) :
        (~e_runs[k].raised /\ e_runs[k].input = <<>>) =>
            /\ e_runs[k].fallback_invoked = e_enable_fallback
            /\ e_runs[k].raw_predictions = <<>>
            /\ ~e_runs[k].last_resort
            /\ e_runs[k].predictions = <<>>

\* Witness of C12: analyze([]) has returned on an engine whose fallback is
\* enabled, and the fallback classifier was called.
C12_Witness ==
    /\ e_runs # <<>>
    /\ e_enable_fallback
    /\ e_runs[1].input = <<>>
    /\ ~e_runs[1].raised
    /\ e_runs[1].fallback_invoked

\* Position of the first occurrence of a stage in a given order, 0 if absent.
StageRank(order, stage) ==
    IF \E i \in 1..Len(order) : order[i] = stage
    THEN CHOOSE i \in 1..Len(order) : order[i] = stage
    ELSE 0

\* The stages of a run follow the given order, each at most once.
StagesFollow(order, stages) ==
    /\ \A i \in 1..Len(stages) : StageRank(order, stages[i]) > 0
    /\ \A i \in 1..(Len(stages) - 1) :
          StageRank(order, stages[i]) < StageRank(order, stages[i + 1])

\* RunFallback only when the registered classifiers produced no prediction,
\* LastResort only when the fallback produced none either.
StageConditions(run) ==
    /\ (\E i \in 1..Len(run.stages) : run.stages[i] = "RunFallback")
          => run.rule_predictions = <<>>
    /\ (\E i \in 1..Len(run.stages) : run.stages[i] = "LastResort")
          => (run.rule_predictions = <<>> /\ run.fallback_predictions = <<>>)

\* C13 as stated: in every run of analyze() the stages execute in the order
\* RunClassifiers, RunFallback, LastResort, Coordinate, Enrich, Sort, each at
\* most once; RunFallback only when the registered classifiers produced no
\* prediction, LastResort only when the fallback also produced none.
C13_StagesInStatedOrder ==
    \A k \in 1..Len(e_runs) :
        ~e_runs[k].raised =>
            /\ StagesFollow(<<"RunClassifiers", "RunFallback", "LastResort",
                              "Coordinate", "Enrich", "Sort">>, e_runs[k].stages)
            /\ StageConditions(e_runs[k])

\* C13 amended: the stages execute in the order RunClassifiers, RunFallback,
\* LastResort, Coordinate, Sort, Enrich, each at most once; the sort is the
\* last statement of coordinate() and runs only when a prediction reached the
\* threshold, the enrichment comes after it; RunFallback and LastResort run
\* only under the stated conditions.
C13_StagesSortBeforeEnrich ==
    \A k \in 1..Len(e_runs) :
        ~e_runs[k].raised =>
            /\ StagesFollow(<<"RunClassifiers", "RunFallback", "LastResort",
                              "Coordinate", "Sort", "Enrich">>, e_runs[k].stages)
            /\ StageConditions(e_runs[k])
            /\ (\E i \in 1..Len(e_runs[k].stages) : e_runs[k].stages[i] = "Sort")
                  <=> e_runs[k].predictions # <<>>

\* Witness of C13: a run in which the fallback classifier ran and a prediction
\* passed the threshold, so that coordinate() sorted and the result was
\* enriched.
C13_Witness ==
    /\ e_runs # <<>>
    /\ ~e_runs[1].raised
    /\ e_runs[1].fallback_invoked
    /\ e_runs[1].predictions # <<>>
    /\ e_runs[1].stages = <<"RunClassifiers", "RunFallback", "Coordinate", "Sort", "Enrich">>

\* The number of input segments the generator has taken from its iterator.
CtxConsumed == Len(ca_all) - Len(ca_input)

\* C14 as stated: when the input has at least window_size segments, no output
\* is produced before window_size inputs have been consumed, and the first
\* output is produced without consuming more than window_size inputs.
C14_FirstOutputAfterWindowSize ==
    Len(ca_all) >= ca_window =>
        /\ ca_out # <<>> => CtxConsumed >= ca_window
        /\ (Len(ca_out) = 1 /\ ca_pc \in {"yielded", "flush_yielded"})
              => CtxConsumed <= ca_window

\* The position at which a prediction first appears in a list, 0 if it does not.
FirstIndex(list, p) ==
    IF \E i \in 1..Len(list) : list[i] = p
    THEN CHOOSE i \in 1..Len(list) :
            /\ list[i] = p
            /\ \A j \in 1..(i - 1) : list[j] # p
    ELSE 0

\* A prediction that occurs exactly once in the input list, so that its
\* position there is the position of one object.
OccursOnce(p) == Cardinality({k \in 1..Len(c_preds) : c_preds[k] = p}) = 1

\* C15 as stated: among the predictions returned by coordinate() that have
\* equal confidence, the relative order is the order in which they first
\* appeared in the input list (checked for predictions that occur once in
\* the input).
C15_TiesInInputOrder ==
    c_pc = "done" =>
        \A i, j \in 1..Len(c_out) :
            (/\ i < j
             /\ c_out[i].confidence = c_out[j].confidence
             /\ OccursOnce(c_out[i]) /\ OccursOnce(c_out[j]))
                => FirstIndex(c_preds, c_out[i]) < FirstIndex(c_preds, c_out[j])

\* C15 amended: among the returned predictions of equal confidence, the
\* relative order is the order of their conflict groups, that is the order in
\* which the first member of each group appears in the input list; the winner
\* of a group may itself appear later in the input than the winner of a later
\* group.
C15_TiesInGroupOrder ==
    c_pc = "done" =>
        \A i, j \in 1..Len(c_out) :
            (i < j /\ c_out[i].confidence = c_out[j].confidence /\ c_out[i] # c_out[j])
                => \E g, h \in 1..Len(c_groups) :
                      /\ c_groups[g][1] < c_groups[h][1]
                      /\ c_out[i] \in Range(GroupMembers(CoordFiltered, c_groups[g]))
                      /\ c_out[j] \in Range(GroupMembers(CoordFiltered, c_groups[h]))

\* Witness of C15: two returned predictions of equal confidence, the first of
\* them the winner of a group whose first member precedes the other in the
\* input while the winner itself follows it.
C15_Witness ==
    /\ c_pc = "done"
    /\ \E i, j \in 1..Len(c_out) :
          /\ i < j
          /\ c_out[i].confidence = c_out[j].confidence
          /\ OccursOnce(c_out[i]) /\ OccursOnce(c_out[j])
          /\ FirstIndex(c_preds, c_out[i]) > FirstIndex(c_preds, c_out[j])
          /\ \E g \in 1..Len(c_groups) :
                /\ Len(c_groups[g]) >= 2
                /\ c_out[i] \in Range(GroupMembers(CoordFiltered, c_groups[g]))

\* A prediction of the filtered list shares no segment id with any other one.
SharesNoSegment(k) ==
    \A m \in 1..Len(CoordFiltered) :
        m # k => SegmentSet(CoordFiltered[m]) \cap SegmentSet(CoordFiltered[k]) = {}

\* A prediction of the filtered list has Jaccard similarity below the
\* threshold with every other one: it belongs to no conflict pair.
BelowThresholdWithAll(k) ==
    \A m \in 1..Len(CoordFiltered) :
        m # k => JaccardBelowThreshold(SegmentSet(CoordFiltered[m]),
                                       SegmentSet(CoordFiltered[k]))

-----------------------------------------------------------------------------
(* Claims about the token classifier and its conflict resolver             *)

\* No provider-specific marker applies to the line under the provider.
NoMarkerApplies(provider, line) ==
    /\ ~(provider = "github_actions" /\ (HasGithubError(line) \/ HasGithubWarning(line)))
    /\ ~(provider = "gitlab_ci" /\ HasGitlabError(line))

\* The fixed order of the claim: stack-trace, test-error, test-failure, error,
\* assertion-fail, exit-code-nonzero, warning, info, default.
DeclaredOrder ==
    <<"STACK_TRACE", "TEST_ERROR", "TEST_FAILURE", "ERROR", "ASSERTION_FAIL",
      "EXIT_CODE_NON_ZERO", "WARNING", "INFO", "DEFAULT">>

DeclaredRank(t) == CHOOSE i \in 1..Len(DeclaredOrder) : DeclaredOrder[i] = t

\* C17 as stated: when no provider-specific marker applies,
\* resolve_with_patterns returns a candidate whose severity value is maximal
\* among the candidates, and among candidates of equal severity the one
\* earliest in the fixed order (checked on the calls whose candidates all
\* have a severity value and a place in the order).
C17_MaxSeverityCandidate ==
    \A k \in 1..Len(tk_out) :
        (/\ tk_out[k].resolver_called
         /\ NoMarkerApplies(tk_provider, tk_out[k].line)
         /\ Range(tk_out[k].candidates) \subseteq DOMAIN TokenTypeSeverity
         /\ Range(tk_out[k].candidates) \subseteq Range(DeclaredOrder))
            => /\ tk_out[k].resolved \in Range(tk_out[k].candidates)
               /\ \A c \in Range(tk_out[k].candidates) :
                     /\ TokenTypeSeverity[c] <= TokenTypeSeverity[tk_out[k].resolved]
                     /\ TokenTypeSeverity[c] = TokenTypeSeverity[tk_out[k].resolved]
                           => DeclaredRank(tk_out[k].resolved) <= DeclaredRank(c)

\* The line carries the error marker of the provider: '##[error]' under
\* github_actions, 'ERROR:' under gitlab_ci.
CarriesErrorMarker(provider, line) ==
    \/ provider = "github_actions" /\ HasGithubError(line)
    \/ provider = "gitlab_ci" /\ HasGitlabError(line)

\* C18 as stated: under a provider with literal markers, a line carrying the
\* error marker always resolves to the provider's CI-error kind, whatever
\* other candidates the generic patterns, the level field or the stack-trace
\* and test context add.
C18_ErrorMarkerResolvesToCiError ==
    \A k \in 1..Len(tk_out) :
        CarriesErrorMarker(tk_provider, tk_out[k].line) => tk_out[k].resolved = "CI_ERROR"

\* The run of a stack trace as the claim describes it: a line is in the run
\* when it opens a stack trace, or when the line before it is in the run and
\* it is neither blank nor non-indented.
RECURSIVE InStackTraceRun(_)
InStackTraceRun(k) ==
    IF k = 0 THEN FALSE
    ELSE \/ tk_out[k].line.opener
         \/ /\ InStackTraceRun(k - 1)
            /\ tk_out[k].line.indented
            /\ ~tk_out[k].line.blank

\* C19 as stated: after a line that opens a stack trace, every following line
\* is tagged as stack trace even when it matches no stack-trace pattern, up to
\* but not including the first blank or non-indented line; after that line,
\* plain lines are not tagged as stack trace until the next opener.  (Lines
\* with a provider marker are left to the precedence rule of the markers.)
C19_StackTraceRun ==
    \A k \in 1..Len(tk_out) :
        NoMarkerApplies(tk_provider, tk_out[k].line) =>
            /\ InStackTraceRun(k) => tk_out[k].resolved = "STACK_TRACE"
            /\ (~InStackTraceRun(k) /\ "STACK_TRACE" \notin tk_out[k].line.patterns)
                  => tk_out[k].resolved # "STACK_TRACE"

-----------------------------------------------------------------------------
(* Claims about buffered grouping                                          *)

\* The tokens at positions i and j are in one group, that is in one segment.
SameSegment(i, j) ==
    \E g \in 1..Len(g_groups) : {i, j} \subseteq Range(g_groups[g])

ErrorOrStackTrace(token) == token.type \in {"ERROR", "STACK_TRACE"}

\* C20 as stated: when process() returns, any two consecutive tokens whose
\* section or stream differs are in the same segment if and only if both are
\* of the kinds error or stack trace.
C20_BridgeIffBothErrorKinds ==
    g_pc = "done" =>
        \A i \in 1..(Len(g_tokens) - 1) :
            LET a == g_tokens[i]
                b == g_tokens[i + 1]
            IN (\/ a.source_line.line.section # b.source_line.line.section
                \/ a.source_line.stream_type # b.source_line.stream_type)
               => (SameSegment(i, i + 1) <=> (ErrorOrStackTrace(a) /\ ErrorOrStackTrace(b)))

-----------------------------------------------------------------------------
(* Further claims about the fallback classifier                            *)

\* The positions of the segments that reach min_segment_score.
SignificantPositions ==
    {j \in 1..Len(f_segments) :
        f_segments[j].score # NoScore /\ f_segments[j].score >= min_segment_score}

\* The positions of the segments the returned predictions reference.
ReferencedPositions ==
    {j \in 1..Len(f_segments) :
        \E i \in 1..Len(f_out) :
            f_out[i].segment_ids = <<SegmentIdOrSynthetic(f_segments[j])>>}

\* No segment left out has a strictly higher score than a referenced one.
NoBetterScoreLeftOut ==
    \A j \in ReferencedPositions :
        \A k \in (1..Len(f_segments)) \ ReferencedPositions :
            SortScore(f_segments[k]) <= SortScore(f_segments[j])

\* C23 as stated: classify returns at most 3 predictions and they reference
\* the highest-scoring segments: when some segments reach min_segment_score,
\* no segment left out has a strictly higher score than a referenced one;
\* when none reaches it, the min(3, n) best-scoring segments are referenced.
C23_HighestScoringReferenced ==
    f_pc = "done" =>
        /\ Len(f_out) <= 3
        /\ Cardinality(ReferencedPositions) = Len(f_out)
        /\ NoBetterScoreLeftOut
        /\ SignificantPositions = {}
              => Cardinality(ReferencedPositions) = Min(3, Len(f_segments))

\* C23 amended: classify returns at most 3 predictions, each referencing one
\* segment of its own.  When some segments reach min_segment_score, only such
\* segments are referenced, min(3, their number) of them, and they are the
\* ones with the predictions of highest confidence: no segment reaching
\* min_segment_score that is left out has a prediction of strictly higher
\* confidence than a returned one.  When none reaches it, the min(3, n)
\* segments with the best scores are referenced.
C23_HighestConfidenceReferenced ==
    f_pc = "done" =>
        /\ Len(f_out) <= 3
        /\ Cardinality(ReferencedPositions) = Len(f_out)
        /\ SignificantPositions # {} =>
              /\ ReferencedPositions \subseteq SignificantPositions
              /\ Len(f_out) = Min(3, Cardinality(SignificantPositions))
              /\ \A k \in SignificantPositions \ ReferencedPositions :
                    \A i \in 1..Len(f_out) :
                        FallbackConfidence(f_segments[k], f_ceiling) <= f_out[i].confidence
        /\ SignificantPositions = {} =>
              /\ Cardinality(ReferencedPositions) = Min(3, Len(f_segments))
              /\ NoBetterScoreLeftOut

\* Witness of C23: four segments reach min_segment_score, three are
\* referenced, and the one left out has a higher score than a referenced one.
C23_Witness ==
    /\ f_pc = "done"
    /\ Cardinality(SignificantPositions) = 4
    /\ Len(f_out) = 3
    /\ ~NoBetterScoreLeftOut

-----------------------------------------------------------------------------
(* Further claims about the coordinator                                    *)

\* C25: the groups built by _group_overlapping_predictions form a partition
\* of the filtered predictions: every prediction (by its position in the
\* list, so that equal predictions count separately) is in exactly one group,
\* once, and no group is empty.
C25_GroupsPartitionFiltered ==
    c_pc \in {"done", "raised"} =>
        /\ \A g \in 1..Len(c_groups) : c_groups[g] # <<>>
        /\ \A k \in 1..Len(CoordFiltered) :
              \E g \in 1..Len(c_groups) :
                  /\ Cardinality({m \in 1..Len(c_groups[g]) : c_groups[g][m] = k}) = 1
                  /\ \A h \in 1..Len(c_groups) : h # g => k \notin Range(c_groups[h])
        /\ \A g \in 1..Len(c_groups) : Range(c_groups[g]) \subseteq 1..Len(CoordFiltered)

\* Witness of C25: two equal predictions with segment ids share a group and a
\* prediction with empty segment_ids has a group of its own.
C25_Witness ==
    /\ c_pc \in {"done", "raised"}
    /\ \E i, j, k \in 1..Len(CoordFiltered) :
          /\ i # j
          /\ CoordFiltered[i] = CoordFiltered[j]
          /\ CoordFiltered[i].segment_ids # <<>>
          /\ \E g \in 1..Len(c_groups) : {i, j} \subseteq Range(c_groups[g])
          /\ CoordFiltered[k].segment_ids = <<>>
          /\ \E g \in 1..Len(c_groups) : c_groups[g] = <<k>>

\* C28 as stated: with a conflict_resolution_strategy that is none of the
\* three known names, coordinate() returns normally, with the result of the
\* weighted_score strategy, whenever a conflict group holds two or more
\* predictions.
C28_UnknownStrategyFallsBack ==
    (/\ c_strategy \notin scoring_functions
     /\ c_pc \in {"done", "raised"}
     /\ \E g \in 1..Len(c_groups) : Len(c_groups[g]) > 1)
    => /\ c_pc = "done"
       /\ c_out = coordinate("weighted_score", base_confidence_threshold, c_preds)

-----------------------------------------------------------------------------
(* Further claims about the context analyzer                               *)

\* C30: during ContextAnalyzer.analyze the buffer never holds more than
\* window_size + 1 segments, and it is empty when the generator has finished.
C30_BufferBounded ==
    /\ Len(ca_buffer) <= ca_window + 1
    /\ ca_pc = "done" => ca_buffer = <<>>

\* Witness of C30: the generator has finished on an input longer than
\* window_size, so that the buffer did hold window_size + 1 segments.
C30_Witness ==
    /\ ca_pc = "done"
    /\ Len(ca_all) > ca_window
    /\ Len(ca_out) = Len(ca_all)
    /\ ca_buffer = <<>>

\* The concatenation of the groups, in order.
RECURSIVE FlattenGroups(_)
FlattenGroups(groups) ==
    IF groups = <<>> THEN <<>> ELSE Head(groups) \o FlattenGroups(Tail(groups))

\* The groups are non-empty and, laid end to end, are the token positions
\* 1, 2, ..., n in order.
GroupsPartitionTokens ==
    /\ \A g \in 1..Len(g_groups) : g_groups[g] # <<>>
    /\ FlattenGroups(g_groups) = [i \in 1..Len(g_tokens) |-> i]

\* C24 as stated: once process() has run, its segments partition the
\* classified token sequence into non-empty consecutive runs: every segment
\* has at least one token, every token is in exactly one segment, and token
\* order is preserved, for every sequence of section changes, stream changes
\* and separator tokens.
C24_SegmentsPartitionTokens ==
    g_pc \in {"done", "raised"} => GroupsPartitionTokens

\* The same for the runs of process() that return.
PartitionWhenProcessReturns ==
    g_pc = "done" => GroupsPartitionTokens

-----------------------------------------------------------------------------
(* Claims about the section validator and the section grouping             *)

\* The last call was start_section for a name that was open before it: bound
\* in self.sections to a Section without end_line.
DuplicateStartOfOpen ==
    /\ sv_last.op = "start"
    /\ sv_last.before.sections[sv_last.name] # 0
    /\ sv_last.before.objs[sv_last.before.sections[sv_last.name]].end_line = 0

\* One issue of the level and kind was appended to self.validation_issues by
\* the last call, for its name and line.
LastCallRecorded(level, message) ==
    sv_issues = Append(sv_last.before.issues,
                       [level |-> level, message |-> message,
                        section_name |-> sv_last.name, line_number |-> sv_line])

\* C21 as stated: a start marker for a section name that is already open
\* records a validation issue and opens a new nested level: a new section is
\* created as a child of the innermost open section and pushed on the active
\* stack, the already-open section keeping its start line.
C21_DuplicateStartOpensNestedLevel ==
    DuplicateStartOfOpen =>
        LET before == sv_last.before
            existing == before.sections[sv_last.name]
            created == Len(sv_objs)
        IN /\ Len(sv_issues) = Len(before.issues) + 1
           /\ Len(sv_objs) = Len(before.objs) + 1
           /\ sv_active = Append(before.active, created)
           /\ before.active # <<>> =>
                 sv_objs[created].parent = before.active[Len(before.active)]
           /\ sv_objs[existing].start_line = before.objs[existing].start_line

\* C21 amended: a start marker for a section name that is already open
\* records one WARNING issue and restarts the open section in place:
\* start_section returns the existing Section with its start line overwritten
\* by the line of the new marker; no Section is created, and the known
\* sections, the active stack, the root sections and every other Section are
\* as they were.
C21_DuplicateStartRestartsInPlace ==
    DuplicateStartOfOpen =>
        LET before == sv_last.before
            existing == before.sections[sv_last.name]
        IN /\ LastCallRecorded("warning", "duplicate_start")
           /\ sv_last.returned = existing
           /\ sv_sections = before.sections
           /\ sv_active = before.active
           /\ sv_roots = before.roots
           /\ sv_objs = [before.objs EXCEPT
                            ![existing].start_line = sv_line,
                            ![existing].validation_issues = Append(@, "warning")]

\* Witness of C21: a duplicate start of the open section that is not the
\* innermost one.
C21_Witness ==
    /\ DuplicateStartOfOpen
    /\ Len(sv_active) = 2
    /\ sv_objs[sv_active[1]].name = sv_last.name
    /\ sv_objs[sv_active[1]].start_line = sv_line

\* The last call was end_section for a name that was never started: the name
\* is not in self.sections.
EndOfUnknownSection ==
    /\ sv_last.op = "end"
    /\ sv_last.before.sections[sv_last.name] = 0

\* The validator drops an end marker of an unknown name: an ERROR issue is
\* recorded, None is returned, no Section is closed or changed, and the known
\* sections, the active stack and the root sections are as they were.
UnknownEndDroppedByValidator ==
    EndOfUnknownSection =>
        /\ LastCallRecorded("error", "end_without_start")
        /\ sv_last.returned = 0
        /\ sv_objs = sv_last.before.objs
        /\ sv_sections = sv_last.before.sections
        /\ sv_active = sv_last.before.active
        /\ sv_roots = sv_last.before.roots

\* The positions of the section_end segments that reach group() while no
\* section is open: no section_start before them, or a section_end since
\* the last one.
StrayEndPositions ==
    {i \in 1..Len(sg_segments) :
        /\ sg_segments[i] = "section_end"
        /\ ~\E j \in 1..(i - 1) :
               /\ sg_segments[j] = "section_start"
               /\ \A k \in (j + 1)..(i - 1) : sg_segments[k] # "section_end"}

\* C22 as stated: an end marker for a section name that was never started is
\* recorded as an ERROR-level validation issue and dropped: no exception, no
\* section closed, the known sections, the active stack and the root
\* sections unchanged, and no segment emitted for the marker by group().
C22_UnknownEndDroppedNoSegment ==
    /\ UnknownEndDroppedByValidator
    /\ sg_pc = "done" =>
          \A i \in StrayEndPositions :
              \A g \in 1..Len(sg_out) : i \notin Range(sg_out[g])

\* C22 amended: the validator records the ERROR issue and drops the marker
\* as stated; group() does not drop the segment of an end marker that
\* arrives while no section is open, but yields it as a group of its own.
C22_UnknownEndDroppedByValidatorOnly ==
    /\ UnknownEndDroppedByValidator
    /\ sg_pc = "done" =>
          \A i \in StrayEndPositions :
              Cardinality({g \in 1..Len(sg_out) : i \in Range(sg_out[g])}) = 1
              /\ \E g \in 1..Len(sg_out) : sg_out[g] = <<i>>

\* Witness of C22: an end marker of an unknown name was read while a section
\* was open, and group() has handled a stray end marker.
C22_Witness ==
    /\ EndOfUnknownSection
    /\ sv_active # <<>>
    /\ sg_pc = "done"
    /\ StrayEndPositions # {}

\* C26 as stated: after any sequence of start_section and end_section calls
\* every section on the active_sections stack is still open, and a newly
\* started section is never given a closed section as its parent.
C26_ActiveSectionsOpen ==
    /\ \A i \in 1..Len(sv_active) : sv_objs[sv_active[i]].end_line = 0
    /\ (/\ sv_last.op = "start"
        /\ Len(sv_objs) > Len(sv_last.before.objs)
        /\ sv_objs[Len(sv_objs)].parent # 0)
       => sv_last.before.objs[sv_objs[Len(sv_objs)].parent].end_line = 0

\* C27 as stated: group() emits every input segment in exactly one
\* GroupedSegment, none dropped and none duplicated.
C27_EverySegmentInOneGroup ==
    sg_pc = "done" =>
        \A i \in 1..Len(sg_segments) :
            Cardinality({gm \in {<<g, m>> : g \in 1..Len(sg_out), m \in 1..MaxSgSegments + 2} :
                            /\ gm[2] <= Len(sg_out[gm[1]])
                            /\ sg_out[gm[1]][gm[2]] = i}) = 1

-----------------------------------------------------------------------------
(* Claims about the safe classifier updater                                *)

\* The groups whose result has status 'applied'.
AppliedGroups ==
    {u_results[i].group : i \in {j \in 1..Len(u_results) : u_results[j].status = "applied"}}

\* C29: after apply_feedback_batch has returned, the classifier reflects
\* exactly the feedback groups whose result has status 'applied': the
\* rollback of a regressing group does not undo a group applied before it.
C29_ClassifierReflectsAppliedGroups ==
    u_pc = "done" => u_classifier \cap FeedbackGroups = AppliedGroups

====
